---- MODULE Spec2Model ----
(***************************************************************************)
(* dredger: repository tree acquisition with token accounting              *)
(* (github_client::read_repo), the two-phase documentation pipeline        *)
(* (ollama_client::process_repo), the streaming model query                *)
(* (ollama_client::query_ollama_for_doc / _for_project_overview), the      *)
(* credential loop of main, the write-side workflow open_test_pr and       *)
(* core::dredge_repo.                                                      *)
(*                                                                         *)
(* Text is modelled by TLA+ strings; Len, \o and SubSeq act on them        *)
(* character by character.                                                 *)
(***************************************************************************)
EXTENDS Integers, Sequences, FiniteSets, TLC

VARIABLES
    \* ---- read_repo / read_repo_recursive ----
    stack,          \* activation records of read_repo_recursive, innermost last
    result,         \* what read_repo has returned to its caller, if anything
    requests,       \* the remote requests issued so far, in order
    tokenizerLoads, \* the tokenizer loads attempted so far (Tokenizer::from_file)
    tokenizerLog,   \* per file entry processed: what the tokenizer path held, how encode ended
    budget,         \* listing entries the remote repository may still reveal
    \* ---- process_repo ----
    root_node,      \* the tree handed to process_repo
    ppc,            \* position inside process_repo
    pstack,         \* `stack` of process_repo
    project_context,
    raw_context,    \* project_context as it was after Step 1
    doc_results,
    queries,        \* the model queries issued so far, with their outcome
    presult,        \* what process_repo has returned, if anything
    \* ---- query_ollama_for_doc / query_ollama_for_project_overview ----
    qstream,        \* the response body the model server sends, whole
    qrest,          \* the part of it that has not arrived yet
    qpc,            \* position inside the query
    qsplit,         \* whether a chunk has ended inside a line
    full_response,
    qresult,        \* what the query has returned, if anything
    \* ---- one remote request of the tree build and the answer to it ----
    call,           \* the request: listing or file content, its path, the response
    callResult,     \* what the code has made of the response, if anything
    \* ---- check_and_setup / get_token_from_env and validate_token ----
    ENV,            \* the environment variable ENV
    GITHUB_PAT,     \* the environment variable GITHUB_PAT
    envFiles,       \* the env files of the working directory
    checkSuffix,    \* the argument `suffix` of check_and_setup
    checked,        \* what check_and_setup has returned, if anything
    validator,      \* which validate_token runs: that of main.rs or of github_client
    whoami,         \* the whoami requests sent, each with its response
    validated,      \* what validate_token has returned, if anything
    \* ---- open_test_pr ----
    prpc,           \* position inside open_test_pr
    prCalls,        \* the REST calls issued so far, each with its response
    prResult,       \* what open_test_pr has returned, if anything
    \* ---- main ----
    quiet,          \* the --quiet flag
    mpc,            \* position inside main
    exit_status,    \* the status the process has ended with, if it has
    mainLog,        \* what main has done so far, in order
    \* ---- dredge_repo ----
    dredged         \* what dredge_repo has returned, if anything

buildVars == <<stack, result, requests, tokenizerLoads, tokenizerLog, budget>>
pipeVars == <<root_node, ppc, pstack, project_context, raw_context, doc_results,
              queries, presult>>
queryVars == <<qstream, qrest, qpc, qsplit, full_response, qresult>>
callVars == <<call, callResult>>
credVars == <<ENV, GITHUB_PAT, envFiles, checkSuffix, checked, validator, whoami, validated>>
prVars == <<prpc, prCalls, prResult>>
mainVars == <<quiet, mpc, exit_status, mainLog>>
dredgeVars == <<dredged>>
vars == <<buildVars, pipeVars, queryVars, callVars, credVars, prVars, mainVars,
          dredgeVars>>

\* a step of read_repo leaves the rest alone
BuildOnly == UNCHANGED <<pipeVars, queryVars, callVars, credVars,
                       prVars, mainVars, dredgeVars>>

(***************************************************************************)
(* Bounds of the model.                                                    *)
(***************************************************************************)
\* entries the remote repository holds, over all its directories
MaxEntries == 4
\* tokens the user types when main prompts
MaxPrompts == 2
\* bits of usize, the type of token_count: 32 or 64 on the targets Rust builds
\* for, scaled down here so that a sum can pass the largest value
UsizeBits == 16

(***************************************************************************)
(* Strings: str::ends_with, str::starts_with, str::trim, str::lines, join. *)
(***************************************************************************)
EndsWith(s, suffix) ==
    /\ Len(suffix) <= Len(s)
    /\ SubSeq(s, Len(s) - Len(suffix) + 1, Len(s)) = suffix

StartsWith(s, prefix) ==
    /\ Len(prefix) <= Len(s)
    /\ SubSeq(s, 1, Len(prefix)) = prefix

(***************************************************************************)
(* RepoNode (github_client/data.rs).                                       *)
(***************************************************************************)
File(name, path, content, token_count) ==
    [kind |-> "File", name |-> name, path |-> path, content |-> content,
     token_count |-> token_count]

Directory(name, path, children, token_count) ==
    [kind |-> "Directory", name |-> name, path |-> path, children |-> children,
     token_count |-> token_count]

\* RepoNode::token_count
token_count(node) == node.token_count

RECURSIVE SumFileTokenCounts(_)
\* a sum that leaves the Directory children out
SumFileTokenCounts(children) ==
    IF children = <<>> THEN 0
    ELSE (IF Head(children).kind = "File" THEN Head(children).token_count ELSE 0)
         + SumFileTokenCounts(Tail(children))

\* usize::MAX
UsizeMax == 2^UsizeBits - 1

RECURSIVE SumTokenCounts(_)
\* children.iter().map(|child| child.token_count()).sum::<usize>(), as a build
\* without overflow checks computes it: usize addition wraps
SumTokenCounts(children) ==
    IF children = <<>> THEN 0
    ELSE (token_count(Head(children)) + SumTokenCounts(Tail(children)))
         % (UsizeMax + 1)

RECURSIVE SumOverflows(_, _)
\* whether one of the additions of that sum passes usize::MAX; `acc` is the
\* accumulator of the fold
SumOverflows(children, acc) ==
    /\ children # <<>>
    /\ \/ acc + token_count(Head(children)) > UsizeMax
       \/ SumOverflows(Tail(children), acc + token_count(Head(children)))

(***************************************************************************)
(* utils/tokens.rs: count_tokens.  The tokenizer itself is the external    *)
(* tokenizers crate; it is modelled as one id per whitespace-separated     *)
(* word.  Whether encode fails is the environment's choice.                *)
(***************************************************************************)
IsSpace(c) == c \in {" ", "\n", "\t", "\r"}

RECURSIVE WordCount(_, _)
WordCount(s, inWord) ==
    IF s = "" THEN 0
    ELSE LET c == SubSeq(s, 1, 1)
             rest == SubSeq(s, 2, Len(s))
         IN  IF IsSpace(c) THEN WordCount(rest, FALSE)
             ELSE (IF inWord THEN 0 ELSE 1) + WordCount(rest, TRUE)

\* a count of characters instead of token ids
count_characters(content, encodeOk) ==
    IF encodeOk THEN [ok |-> TRUE, count |-> Len(content)]
    ELSE [ok |-> FALSE, error |-> "TokenizationError"]

count_tokens(content, encodeOk) ==
    IF encodeOk THEN [ok |-> TRUE, count |-> WordCount(content, FALSE)]
    ELSE [ok |-> FALSE, error |-> "TokenizationError"]

(***************************************************************************)
(* The remote repository, as the contents endpoint reveals it.             *)
(***************************************************************************)
\* the entries a listing may hold: name and type (RepoContent.name, .type)
EntryKinds ==
    { [name |-> "a.rs", type |-> "file"],
      [name |-> "README.md", type |-> "file"],
      [name |-> "sub", type |-> "dir"],
      [name |-> "link", type |-> "symlink"] }

\* the text a remote file may hold
Contents == {"# hello", "fn main() {}"}

ChildPath(path, name) == IF path = "" THEN name ELSE path \o "/" \o name

\* RepoContent of a directory listing (content is absent in listings)
Entry(path, k) == [name |-> k.name, path |-> ChildPath(path, k.name), type |-> k.type]

\* the listings of at most n entries, names distinct, in any order
Listings(path, n) ==
    UNION { { [i \in 1..len |-> Entry(path, f[i])] :
                f \in { g \in [1..len -> EntryKinds] :
                          \A i, j \in 1..len : i # j => g[i] # g[j] } } :
            len \in 0..n }

\* HTTP status codes the remote may answer with
Statuses == {200, 404, 500}
is_success(status) == status >= 200 /\ status <= 299

\* answers of the single-file endpoint: transport failure, or a status and a body;
\* the body parses as RepoContent or does not, content is absent or base64 that
\* decodes or does not
FileResponses ==
    { [transport |-> "error"] } \cup
    { [transport |-> "ok", status |-> s, body |-> b] :
        s \in Statuses,
        b \in { [json |-> FALSE] } \cup
              { [json |-> TRUE, content |-> "None"] } \cup
              { [json |-> TRUE, content |-> "Some", decodes |-> FALSE] } \cup
              { [json |-> TRUE, content |-> "Some", decodes |-> TRUE, text |-> t] :
                  t \in Contents } }

\* the Box<dyn Error> values of fetch_file_content: what `?` passes on from
\* send, json and decode, and the message of its last line
BoxedReqwestError == [variant |-> "reqwest::Error"]
BoxedDecodeError == [variant |-> "base64::DecodeError"]
FetchFailed == [variant |-> "String", msg |-> [text |-> "Failed to fetch file content"]]

\* fetch_file_content
fetch_file_content(resp) ==
    IF resp.transport = "error" THEN [ok |-> FALSE, error |-> BoxedReqwestError]
    ELSE IF is_success(resp.status)
         THEN IF ~resp.body.json THEN [ok |-> FALSE, error |-> BoxedReqwestError]
              ELSE IF resp.body.content = "Some"
                   THEN IF resp.body.decodes
                        THEN [ok |-> TRUE, text |-> resp.body.text]
                        ELSE [ok |-> FALSE, error |-> BoxedDecodeError]
                   ELSE [ok |-> FALSE, error |-> FetchFailed]
         ELSE [ok |-> FALSE, error |-> FetchFailed]

Placeholder == "Failed to fetch content"

\* .unwrap_or_else(|_| "Failed to fetch content".to_string())
ContentOrPlaceholder(fetched) == IF fetched.ok THEN fetched.text ELSE Placeholder

(***************************************************************************)
(* read_repo and read_repo_recursive (github_client/client.rs).  The       *)
(* recursion is an explicit stack of activation records; an action is the  *)
(* code between two suspension points of the innermost activation.         *)
(***************************************************************************)
\* DredgerError values (utils/errors.rs, utils/tokens.rs)
VarError == [variant |-> "VarError"]
ReqwestError == [variant |-> "ReqwestError"]
GithubClientError(status) ==
    [variant |-> "GithubClientError",
     msg |-> [text |-> "Failed to fetch repository contents", status |-> status]]
TokenizerFileNotFound ==
    [variant |-> "TokenizerError", inner |-> [variant |-> "FileNotFound"]]
TokenizerLoadError ==
    [variant |-> "TokenizerError", inner |-> [variant |-> "LoadError"]]

Ok(node) == [tag |-> "Ok", node |-> node]
Err(error) == [tag |-> "Err", error |-> error]
\* count_tokens(..).unwrap() on an Err value
Panicked == [tag |-> "panic", payload |-> "TokenizationError"]
\* an addition of the token sum overflowing in a build with overflow checks
\* (debug_assertions: the default of the dev profile)
PanickedOverflow == [tag |-> "panic", payload |-> "attempt to add with overflow"]
Idle == [tag |-> "idle"]
Running == [tag |-> "running"]

\* one activation of read_repo_recursive: its `path`, the listing it iterates
\* (`repo_contents`), the loop position, `children`, and the `content` of the
\* file entry being processed
Frame(path) ==
    [path |-> path, pc |-> "list", entries |-> <<>>, idx |-> 1, children |-> <<>>,
     content |-> ""]

Top == stack[Len(stack)]
SetTop(f) == [stack EXCEPT ![Len(stack)] = f]
Pop == SubSeq(stack, 1, Len(stack) - 1)

ListRequest(path, ok, entries) ==
    [kind |-> "list", path |-> path, ok |-> ok, entries |-> entries]
FileRequest(path, ok) == [kind |-> "file", path |-> path, ok |-> ok]

\* read_repo: the token lookup, then the root activation
ReadRepo ==
    /\ result = Idle
    /\ \E tokenSet \in BOOLEAN :
         IF tokenSet
         THEN /\ stack' = <<Frame("")>>
              /\ result' = Running
         ELSE /\ result' = Err(VarError)
              /\ stack' = stack
    /\ UNCHANGED <<requests, tokenizerLoads, tokenizerLog, budget>>
    /\ BuildOnly

\* a `?` that ends the innermost activation only: the caller goes on with the
\* entry after the subdirectory
PropagateToCallerOnly(error) ==
    /\ stack' = IF Len(stack) = 1 THEN <<>>
                ELSE [Pop EXCEPT ![Len(stack) - 1] = [@ EXCEPT !.idx = @ + 1]]
    /\ result' = Err(error)

\* the `?` of read_repo_recursive and of read_repo: every activation returns Err
Propagate(error) ==
    /\ stack' = <<>>
    /\ result' = Err(error)

\* answers of the contents endpoint to a listing request, the listing aside:
\* transport failure, or a status and a body that is a Vec<RepoContent> or not
ListResponses ==
    { [transport |-> t, status |-> s, parses |-> p] :
        t \in {"ok", "error"}, s \in Statuses, p \in BOOLEAN }

ListSucceeds(resp) == resp.transport = "ok" /\ is_success(resp.status) /\ resp.parses

\* the error of a failed listing request
ListError(resp) ==
    IF resp.transport = "error" THEN ReqwestError
    ELSE IF is_success(resp.status) THEN ReqwestError
    ELSE GithubClientError(resp.status)

\* a failed listing taken for an empty directory
ListFailAsEmpty ==
    /\ stack # <<>> /\ Top.pc = "list"
    /\ stack' = SetTop([Top EXCEPT !.pc = "loop"])
    /\ requests' = Append(requests, ListRequest(Top.path, FALSE, <<>>))
    /\ UNCHANGED <<result, tokenizerLoads, tokenizerLog, budget>>
    /\ BuildOnly

\* the listing request fails: transport, non-success status, or a body that is
\* no Vec<RepoContent>
ListFail ==
    /\ stack # <<>> /\ Top.pc = "list"
    /\ \E resp \in { r \in ListResponses : ~ListSucceeds(r) } :
         Propagate(ListError(resp))
    /\ requests' = Append(requests, ListRequest(Top.path, FALSE, <<>>))
    /\ UNCHANGED <<tokenizerLoads, tokenizerLog, budget>>
    /\ BuildOnly

\* the listing request succeeds: repo_contents is the listing
ListOk ==
    /\ stack # <<>> /\ Top.pc = "list"
    /\ \E listing \in Listings(Top.path, budget) :
         /\ stack' = SetTop([Top EXCEPT !.pc = "loop", !.entries = listing])
         /\ requests' = Append(requests, ListRequest(Top.path, TRUE, listing))
         /\ budget' = budget - Len(listing)
    /\ UNCHANGED <<result, tokenizerLoads, tokenizerLog>>
    /\ BuildOnly

AtEntry(type) ==
    /\ stack # <<>> /\ Top.pc = "loop"
    /\ Top.idx <= Len(Top.entries)
    /\ Top.entries[Top.idx].type = type

\* a fetch whose failure is propagated with `?` instead of replaced
FetchFileOrAbort ==
    /\ AtEntry("file")
    /\ \E resp \in FileResponses :
         LET fetched == fetch_file_content(resp)
         IN  /\ IF fetched.ok
                THEN /\ stack' = SetTop([Top EXCEPT !.pc = "tokenize",
                                                    !.content = fetched.text])
                     /\ result' = result
                ELSE Propagate(GithubClientError(0))
             /\ requests' = Append(requests,
                                   FileRequest(Top.entries[Top.idx].path, fetched.ok))
    /\ UNCHANGED <<tokenizerLoads, tokenizerLog, budget>>
    /\ BuildOnly

\* file entry: fetch_file_content(..).await.unwrap_or_else(..)
FetchFile ==
    /\ AtEntry("file")
    /\ \E resp \in FileResponses :
         LET fetched == fetch_file_content(resp)
         IN  /\ stack' = SetTop([Top EXCEPT !.pc = "tokenize",
                                            !.content = ContentOrPlaceholder(fetched)])
             /\ requests' = Append(requests,
                                   FileRequest(Top.entries[Top.idx].path, fetched.ok))
    /\ UNCHANGED <<result, tokenizerLoads, tokenizerLog, budget>>
    /\ BuildOnly

\* what the tokenizer path holds when a file entry is processed
TokenizerFiles == {"missing", "malformed", "model"}

\* a tokenizer that cannot be loaded counted as zero tokens
TokenizeFileOrZero ==
    /\ stack # <<>> /\ Top.pc = "tokenize"
    /\ \E tokenizerFile \in TokenizerFiles :
         /\ LET file == Top.entries[Top.idx]
                count == IF tokenizerFile = "model"
                         THEN count_tokens(Top.content, TRUE).count ELSE 0
            IN  stack' = SetTop([Top EXCEPT
                            !.pc = "loop",
                            !.idx = @ + 1,
                            !.content = "",
                            !.children = Append(@, File(file.name, file.path, Top.content,
                                                        count))])
         /\ tokenizerLog' = Append(tokenizerLog,
                [path |-> Top.entries[Top.idx].path, tokenizer |-> tokenizerFile,
                 encode |-> IF tokenizerFile # "model" THEN "none" ELSE "ok"])
    /\ tokenizerLoads' = tokenizerLoads + 1
    /\ UNCHANGED <<result, requests, budget>>
    /\ BuildOnly

\* file entry, after the fetch: the tokenizer is looked up and loaded, the content
\* is counted and the File node is pushed
TokenizeFile ==
    /\ stack # <<>> /\ Top.pc = "tokenize"
    /\ \E tokenizerFile \in TokenizerFiles, encodeOk \in BOOLEAN :
         /\ LET file == Top.entries[Top.idx]
                counted == count_tokens(Top.content, encodeOk)
            IN  IF tokenizerFile = "missing"
                THEN /\ Propagate(TokenizerFileNotFound)
                     /\ tokenizerLoads' = tokenizerLoads
                ELSE IF tokenizerFile = "malformed"
                THEN /\ Propagate(TokenizerLoadError)
                     /\ tokenizerLoads' = tokenizerLoads + 1
                ELSE IF ~counted.ok
                THEN /\ stack' = <<>>
                     /\ result' = Panicked
                     /\ tokenizerLoads' = tokenizerLoads + 1
                ELSE /\ stack' = SetTop([Top EXCEPT
                            !.pc = "loop",
                            !.idx = @ + 1,
                            !.content = "",
                            !.children = Append(@, File(file.name, file.path, Top.content,
                                                        counted.count))])
                     /\ result' = result
                     /\ tokenizerLoads' = tokenizerLoads + 1
         /\ tokenizerLog' = Append(tokenizerLog,
                [path |-> Top.entries[Top.idx].path, tokenizer |-> tokenizerFile,
                 encode |-> IF tokenizerFile # "model" THEN "none"
                            ELSE IF encodeOk THEN "ok" ELSE "error"])
    /\ UNCHANGED <<requests, budget>>
    /\ BuildOnly

\* dir entry: the recursive call
EnterDir ==
    /\ AtEntry("dir")
    /\ stack' = Append(stack, Frame(Top.entries[Top.idx].path))
    /\ UNCHANGED <<result, requests, tokenizerLoads, tokenizerLog, budget>>
    /\ BuildOnly

\* an entry that is neither "file" nor "dir" kept as a File node without content
SkipEntryAsEmptyFile ==
    /\ stack # <<>> /\ Top.pc = "loop"
    /\ Top.idx <= Len(Top.entries)
    /\ Top.entries[Top.idx].type \notin {"file", "dir"}
    /\ stack' = SetTop([Top EXCEPT
                           !.idx = @ + 1,
                           !.children = Append(@, File(Top.entries[Top.idx].name,
                                                       Top.entries[Top.idx].path, "", 0))])
    /\ UNCHANGED <<result, requests, tokenizerLoads, tokenizerLog, budget>>
    /\ BuildOnly

\* an entry that is neither "file" nor "dir": neither branch of the loop body
SkipEntry ==
    /\ stack # <<>> /\ Top.pc = "loop"
    /\ Top.idx <= Len(Top.entries)
    /\ Top.entries[Top.idx].type \notin {"file", "dir"}
    /\ stack' = SetTop([Top EXCEPT !.idx = @ + 1])
    /\ UNCHANGED <<result, requests, tokenizerLoads, tokenizerLog, budget>>
    /\ BuildOnly

\* a subdirectory node put in front of the children already made
ReturnDirectoryFirst ==
    /\ stack # <<>> /\ Top.pc = "loop"
    /\ Top.idx > Len(Top.entries)
    /\ \E overflow_checks \in BOOLEAN :
         LET node == Directory(Top.path, Top.path, Top.children,
                               SumTokenCounts(Top.children))
         IN  IF overflow_checks /\ SumOverflows(Top.children, 0)
             THEN /\ stack' = <<>>
                  /\ result' = PanickedOverflow
             ELSE IF Len(stack) = 1
             THEN /\ stack' = <<>>
                  /\ result' = Ok(node)
             ELSE /\ stack' = [Pop EXCEPT ![Len(stack) - 1] =
                                  [@ EXCEPT !.idx = @ + 1,
                                            !.children = <<node>> \o @]]
                  /\ result' = result
    /\ UNCHANGED <<requests, tokenizerLoads, tokenizerLog, budget>>
    /\ BuildOnly

\* after the loop: the Directory node, returned to the caller's children.push
\* or, from the root activation, through read_repo.  Whether the build checks
\* the additions of the sum (overflow_checks) is the choice of the profile.
ReturnDirectory ==
    /\ stack # <<>> /\ Top.pc = "loop"
    /\ Top.idx > Len(Top.entries)
    /\ \E overflow_checks \in BOOLEAN :
         LET node == Directory(Top.path, Top.path, Top.children,
                               SumTokenCounts(Top.children))
         IN  IF overflow_checks /\ SumOverflows(Top.children, 0)
             THEN /\ stack' = <<>>
                  /\ result' = PanickedOverflow
             ELSE IF Len(stack) = 1
             THEN /\ stack' = <<>>
                  /\ result' = Ok(node)
             ELSE /\ stack' = [Pop EXCEPT ![Len(stack) - 1] =
                                  [@ EXCEPT !.idx = @ + 1,
                                            !.children = Append(@, node)]]
                  /\ result' = result
    /\ UNCHANGED <<requests, tokenizerLoads, tokenizerLog, budget>>
    /\ BuildOnly

BuildInit ==
    /\ stack = <<>>
    /\ result = Idle
    /\ requests = <<>>
    /\ tokenizerLoads = 0
    /\ tokenizerLog = <<>>
    /\ budget = MaxEntries

\* process_repo is not running
PipeIdle ==
    /\ root_node = Directory("", "", <<>>, 0)
    /\ ppc = "idle"
    /\ pstack = <<>>
    /\ project_context = ""
    /\ raw_context = ""
    /\ doc_results = <<>>
    /\ queries = <<>>
    /\ presult = Idle

\* no model query is running
QueryIdle ==
    /\ qstream = ""
    /\ qrest = ""
    /\ qpc = "idle"
    /\ qsplit = FALSE
    /\ full_response = ""
    /\ qresult = Idle

\* no single request is looked at
CallIdle ==
    /\ call = [kind |-> "none"]
    /\ callResult = Idle

\* neither check_and_setup nor validate_token is called
CredIdle ==
    /\ ENV = [some |-> FALSE]
    /\ GITHUB_PAT = [some |-> FALSE]
    /\ envFiles = <<>>
    /\ checkSuffix = [some |-> FALSE]
    /\ checked = Idle
    /\ validator = "main"
    /\ whoami = <<>>
    /\ validated = Idle

\* open_test_pr is not called
PrIdle ==
    /\ prpc = "idle"
    /\ prCalls = <<>>
    /\ prResult = Idle

\* main is not running: the functions are called on their own
MainIdle ==
    /\ quiet = FALSE
    /\ mpc = "none"
    /\ exit_status = [some |-> FALSE]
    /\ mainLog = <<>>

\* dredge_repo has not returned
DredgeIdle == dredged = Idle

OthersIdle == PrIdle /\ MainIdle /\ DredgeIdle

Init == BuildInit /\ PipeIdle /\ QueryIdle /\ CallIdle /\ CredIdle /\ OthersIdle
Next ==
    \/ ReadRepo
    \/ ListFail
    \/ ListOk
    \/ FetchFile
    \/ TokenizeFile
    \/ EnterDir
    \/ SkipEntry
    \/ ReturnDirectory
Spec == Init /\ [][Next]_vars

\* every request sent is answered in the end and the code between two awaits runs
SpecFair == Spec /\ WF_vars(Next)

(***************************************************************************)
(* The token sum of one directory, on children of any size: the root       *)
(* activation at the end of its loop.  A child stands for a file or a      *)
(* subtree of that many tokens; its content is too long to write down and  *)
(* plays no part in the sum.                                               *)
(***************************************************************************)
Elided == "..."
BigCounts == {0, 1, 2^(UsizeBits - 1), UsizeMax}

SumChildren ==
    UNION { [1..n -> { File("big", "big", Elided, c) : c \in BigCounts }] :
            n \in 0..(MaxEntries - 1) }

SumInit ==
    /\ \E children \in SumChildren :
         stack = <<[Frame("") EXCEPT !.pc = "loop", !.children = children]>>
    /\ result = Running
    /\ requests = <<>>
    /\ tokenizerLoads = 0
    /\ tokenizerLog = <<>>
    /\ budget = 0

InitSum ==
    SumInit /\ PipeIdle /\ QueryIdle /\ CallIdle /\ CredIdle /\ OthersIdle
NextSum ==
    \/ ReturnDirectory
SpecSum == InitSum /\ [][NextSum]_vars

(***************************************************************************)
(* Text helpers of ollama_client/client.rs: str::lines, str::trim,         *)
(* Iterator::take, join.                                                   *)
(***************************************************************************)
Char(s, i) == SubSeq(s, i, i)

\* position of the first "\n" of s, 0 when there is none
FirstNewline(s) ==
    LET at == { i \in 1..Len(s) : Char(s, i) = "\n" }
    IN  IF at = {} THEN 0 ELSE CHOOSE i \in at : \A j \in at : i <= j

\* a line ending "\r\n" loses the "\r" as well
StripCR(line) == IF EndsWith(line, "\r") THEN SubSeq(line, 1, Len(line) - 1) ELSE line

RECURSIVE Lines(_)
\* str::lines: split at "\n" or "\r\n"; no empty last line after a final newline
Lines(s) ==
    IF s = "" THEN <<>>
    ELSE LET i == FirstNewline(s)
         IN  IF i = 0 THEN <<s>>
             ELSE <<StripCR(SubSeq(s, 1, i - 1))>> \o Lines(SubSeq(s, i + 1, Len(s)))

RECURSIVE TrimStart(_)
TrimStart(s) ==
    IF s # "" /\ IsSpace(Char(s, 1)) THEN TrimStart(SubSeq(s, 2, Len(s))) ELSE s

RECURSIVE TrimEnd(_)
TrimEnd(s) ==
    IF s # "" /\ IsSpace(Char(s, Len(s))) THEN TrimEnd(SubSeq(s, 1, Len(s) - 1)) ELSE s

\* str::trim
Trim(s) == TrimEnd(TrimStart(s))

RECURSIVE Join(_, _)
\* [..].join(sep)
Join(lines, sep) ==
    IF lines = <<>> THEN ""
    ELSE IF Len(lines) = 1 THEN lines[1]
    ELSE lines[1] \o sep \o Join(Tail(lines), sep)

\* Iterator::take
Take(seq, n) == SubSeq(seq, 1, IF Len(seq) < n THEN Len(seq) ELSE n)

\* .take(10) of extract_project_context
ContextLines == 10

\* an excerpt that is the whole README
extract_whole_readme(readme) == Join(Lines(readme), "\n")

\* extract_project_context
extract_project_context(readme) == Join(Take(Lines(readme), ContextLines), "\n")

\* the filter of extract_comments, without the trim
IsCommentLineUntrimmed(line) == StartsWith(line, "//")

\* the filter of extract_comments
IsCommentLine(line) == StartsWith(Trim(line), "//")

RECURSIVE CommentLines(_)
\* .filter(|line| line.trim().starts_with("//"))
CommentLines(lines) ==
    IF lines = <<>> THEN <<>>
    ELSE (IF IsCommentLine(Head(lines)) THEN <<Head(lines)>> ELSE <<>>)
         \o CommentLines(Tail(lines))

\* extract_comments
extract_comments(output) == Join(CommentLines(Lines(output)), "\n")

(***************************************************************************)
(* process_repo (ollama_client/client.rs).  A model query is one await: its *)
(* outcome is the environment's choice among the results a query can have.  *)
(***************************************************************************)
\* total File nodes of the trees handed to process_repo
MaxFiles == 3

DredgerDoc(file_path, comments) == [file_path |-> file_path, comments |-> comments]

LongReadme == "l1\nl2\nl3\nl4\nl5\nl6\nl7\nl8\nl9\nl10\nl11\nl12\n"

\* the files of the trees: name, and content given the file's path
PipeFileNames == {"main.rs", "README.md", "README", "vars"}

PipeContent(path, name) ==
    CASE name = "main.rs" -> "// " \o path \o "\nfn main() {}\n"
      [] name = "README.md" -> "# " \o path \o "\r\nA tool.\nUsage"
      [] name = "README" -> path \o "\n" \o LongReadme
      [] name = "vars" -> "x = 1"
      [] OTHER -> ""

PipeFile(dir, name) ==
    LET path == ChildPath(dir, name)
        content == PipeContent(path, name)
    IN  File(name, path, content, count_tokens(content, TRUE).count)

\* sequences of n File nodes of directory dir, names distinct
PipeFileSeqs(dir, n) ==
    { [i \in 1..n |-> PipeFile(dir, f[i])] :
        f \in { g \in [1..n -> PipeFileNames] :
                  \A i, j \in 1..n : i # j => g[i] # g[j] } }

PipeDirectory(path, children) == Directory(path, path, children, SumTokenCounts(children))

InsertAt(seq, k, x) == SubSeq(seq, 1, k - 1) \o <<x>> \o SubSeq(seq, k, Len(seq))

\* the trees read_repo can return with at most MaxFiles files: a root with files
\* and at most one subdirectory "sub" of files, at any place among them
PipeTrees ==
    LET flat == UNION { { PipeDirectory("", fs) : fs \in PipeFileSeqs("", n) } :
                        n \in 0..MaxFiles }
        nested ==
            UNION { UNION { { PipeDirectory("", InsertAt(fs, k, PipeDirectory("sub", ss))) :
                                fs \in PipeFileSeqs("", n),
                                ss \in PipeFileSeqs("sub", t),
                                k \in 1..(n + 1) } :
                            t \in 0..(MaxFiles - n) } :
                    n \in 0..MaxFiles }
    IN  flat \cup nested

\* results a model query can have: failure, or the concatenated completion
QueryErr == [ok |-> FALSE]
QueryOk(text) == [ok |-> TRUE, text |-> text]

\* completions of the overview query
Summaries == {"", "A small tool."}

\* completions of a documentation query: texts of at most two characters
\* among "/" and " ", and longer ones
ShortTexts == { a \o b : a, b \in {"", "/", " "} }
Completions ==
    ShortTexts \cup
    { "//! Entry point.\n//! Runs the tool.",
      " // \n/\n\n//",
      "Here are the docs:\n  //! Indented\nfn main() {}\n\t// tab\r\n/ one slash\n",
      "No comments here." }

\* a suffix test that forgets the dot
IsRustFileNoDot(path) == EndsWith(path, "rs")

\* path.ends_with(".rs")
IsRustFile(path) == EndsWith(path, ".rs")

\* Ok(doc_results)
OkDocs(docs) == [tag |-> "Ok", docs |-> docs]

IsReadme(path) == EndsWith(path, "README") \/ EndsWith(path, "README.md")

PTop == pstack[Len(pstack)]
PPop == SubSeq(pstack, 1, Len(pstack) - 1)

PipeOnly == UNCHANGED <<buildVars, queryVars, callVars, credVars,
                       prVars, mainVars, dredgeVars>>

RECURSIVE SearchReadme(_)
\* Step 1 as a whole, from a given stack: the context the loop ends with
SearchReadme(stk) ==
    IF stk = <<>> THEN ""
    ELSE LET node == stk[Len(stk)]
             rest == SubSeq(stk, 1, Len(stk) - 1)
         IN  IF node.kind = "File"
             THEN IF IsReadme(node.path) THEN extract_project_context(node.content)
                  ELSE SearchReadme(rest)
             ELSE SearchReadme(rest \o node.children)

\* a search that takes the children out of the tree when it finds the README
SearchFileDraining ==
    /\ ppc = "search" /\ pstack # <<>> /\ PTop.kind = "File"
    /\ pstack' = PPop
    /\ IF IsReadme(PTop.path)
       THEN /\ project_context' = extract_project_context(PTop.content)
            /\ raw_context' = project_context'
            /\ ppc' = "summarize"
            /\ root_node' = [root_node EXCEPT !.children = <<>>]
       ELSE UNCHANGED <<project_context, raw_context, ppc, root_node>>
    /\ UNCHANGED <<doc_results, queries, presult>>
    /\ PipeOnly

\* Step 1, a File node popped: the README stops the search
SearchFile ==
    /\ ppc = "search" /\ pstack # <<>> /\ PTop.kind = "File"
    /\ pstack' = PPop
    /\ IF IsReadme(PTop.path)
       THEN /\ project_context' = extract_project_context(PTop.content)
            /\ raw_context' = project_context'
            /\ ppc' = "summarize"
       ELSE UNCHANGED <<project_context, raw_context, ppc>>
    /\ UNCHANGED <<root_node, doc_results, queries, presult>>
    /\ PipeOnly

\* a search that pushes the children last to first, so that the first child is
\* popped first
SearchDirectoryFirstChildFirst ==
    /\ ppc = "search" /\ pstack # <<>> /\ PTop.kind = "Directory"
    /\ pstack' = PPop \o [i \in DOMAIN PTop.children |->
                              PTop.children[Len(PTop.children) + 1 - i]]
    /\ UNCHANGED <<root_node, ppc, project_context, raw_context, doc_results, queries,
                   presult>>
    /\ PipeOnly

\* Step 1, a Directory node popped: its children are pushed in order
SearchDirectory ==
    /\ ppc = "search" /\ pstack # <<>> /\ PTop.kind = "Directory"
    /\ pstack' = PPop \o PTop.children
    /\ UNCHANGED <<root_node, ppc, project_context, raw_context, doc_results, queries,
                   presult>>
    /\ PipeOnly

\* Step 1, stack empty: no README
SearchEnd ==
    /\ ppc = "search" /\ pstack = <<>>
    /\ ppc' = "summarize"
    /\ raw_context' = project_context
    /\ UNCHANGED <<root_node, pstack, project_context, doc_results, queries, presult>>
    /\ PipeOnly

\* an overview query issued whether or not there is a context to summarize
SummarizeAlways ==
    /\ ppc = "summarize"
    /\ \E outcome \in {QueryErr} \cup { QueryOk(t) : t \in Summaries } :
         LET project_summary == IF outcome.ok THEN outcome.text ELSE ""
         IN  /\ queries' = Append(queries,
                   [kind |-> "overview", prompt |-> project_context,
                    outcome |-> outcome])
             /\ project_context' = IF project_summary # "" THEN project_summary
                                   ELSE project_context
    /\ pstack' = <<root_node>>
    /\ ppc' = "docs"
    /\ UNCHANGED <<root_node, raw_context, doc_results, presult>>
    /\ PipeOnly

\* an overview query whose summary replaces the context even when it is empty
SummarizeOrEmpty ==
    /\ ppc = "summarize"
    /\ IF project_context # ""
       THEN \E outcome \in {QueryErr} \cup { QueryOk(t) : t \in Summaries } :
              LET project_summary == IF outcome.ok THEN outcome.text ELSE ""
              IN  /\ queries' = Append(queries,
                        [kind |-> "overview", prompt |-> project_context,
                         outcome |-> outcome])
                  /\ project_context' = project_summary
       ELSE UNCHANGED <<queries, project_context>>
    /\ pstack' = <<root_node>>
    /\ ppc' = "docs"
    /\ UNCHANGED <<root_node, raw_context, doc_results, presult>>
    /\ PipeOnly

\* an overview query whose summary is printed and dropped
SummarizeIgnored ==
    /\ ppc = "summarize"
    /\ IF project_context # ""
       THEN \E outcome \in {QueryErr} \cup { QueryOk(t) : t \in Summaries } :
              /\ queries' = Append(queries,
                    [kind |-> "overview", prompt |-> project_context,
                     outcome |-> outcome])
              /\ project_context' = project_context
       ELSE UNCHANGED <<queries, project_context>>
    /\ pstack' = <<root_node>>
    /\ ppc' = "docs"
    /\ UNCHANGED <<root_node, raw_context, doc_results, presult>>
    /\ PipeOnly

\* Step 1.5: the overview query, its summary taken when not empty; the stack is
\* reinitialised
Summarize ==
    /\ ppc = "summarize"
    /\ IF project_context # ""
       THEN \E outcome \in {QueryErr} \cup { QueryOk(t) : t \in Summaries } :
              LET project_summary == IF outcome.ok THEN outcome.text ELSE ""
              IN  /\ queries' = Append(queries,
                        [kind |-> "overview", prompt |-> project_context,
                         outcome |-> outcome])
                  /\ project_context' = IF project_summary # "" THEN project_summary
                                        ELSE project_context
       ELSE UNCHANGED <<queries, project_context>>
    /\ pstack' = <<root_node>>
    /\ ppc' = "docs"
    /\ UNCHANGED <<root_node, raw_context, doc_results, presult>>
    /\ PipeOnly

\* Step 2, a Directory node popped
DocDirectory ==
    /\ ppc = "docs" /\ pstack # <<>> /\ PTop.kind = "Directory"
    /\ pstack' = PPop \o PTop.children
    /\ UNCHANGED <<root_node, ppc, project_context, raw_context, doc_results, queries,
                   presult>>
    /\ PipeOnly

\* Step 2, a File node that is no Rust file: continue
DocSkip ==
    /\ ppc = "docs" /\ pstack # <<>> /\ PTop.kind = "File"
    /\ ~IsRustFile(PTop.path)
    /\ pstack' = PPop
    /\ UNCHANGED <<root_node, ppc, project_context, raw_context, doc_results, queries,
                   presult>>
    /\ PipeOnly

\* the documentation query and what is made of its outcome
DocQueryOutcome(outcome) ==
    /\ queries' = Append(queries,
          [kind |-> "doc", file_path |-> PTop.path, project_context |-> project_context,
           prompt |-> PTop.content, outcome |-> outcome])
    /\ IF outcome.ok
       THEN LET comments == extract_comments(outcome.text)
            IN  doc_results' = IF comments # ""
                               THEN Append(doc_results, DredgerDoc(PTop.path, comments))
                               ELSE doc_results
       ELSE doc_results' = doc_results

\* a documentation query whose failure is returned with `?`
DocQueryOrAbort ==
    /\ ppc = "docs" /\ pstack # <<>> /\ PTop.kind = "File"
    /\ IsRustFile(PTop.path)
    /\ \E outcome \in {QueryErr} \cup { QueryOk(t) : t \in Completions } :
         /\ DocQueryOutcome(outcome)
         /\ IF outcome.ok
            THEN UNCHANGED <<ppc, presult>>
            ELSE ppc' = "done" /\ presult' = Err("ModelQueryError")
    /\ pstack' = PPop
    /\ UNCHANGED <<root_node, project_context, raw_context>>
    /\ PipeOnly

\* Step 2, a Rust file: the documentation query
DocQuery ==
    /\ ppc = "docs" /\ pstack # <<>> /\ PTop.kind = "File"
    /\ IsRustFile(PTop.path)
    /\ \E outcome \in {QueryErr} \cup { QueryOk(t) : t \in Completions } :
         DocQueryOutcome(outcome)
    /\ pstack' = PPop
    /\ UNCHANGED <<root_node, ppc, project_context, raw_context, presult>>
    /\ PipeOnly

\* Ok(doc_results)
Return ==
    /\ ppc = "docs" /\ pstack = <<>>
    /\ ppc' = "done"
    /\ presult' = OkDocs(doc_results)
    /\ UNCHANGED <<root_node, pstack, project_context, raw_context, doc_results, queries>>
    /\ PipeOnly

PipeInit ==
    /\ root_node \in PipeTrees
    /\ ppc = "search"
    /\ pstack = <<root_node>>
    /\ project_context = ""
    /\ raw_context = ""
    /\ doc_results = <<>>
    /\ queries = <<>>
    /\ presult = Running

InitPipeline ==
    PipeInit /\ BuildInit /\ QueryIdle /\ CallIdle /\ CredIdle /\ OthersIdle

NextPipeline ==
    \/ SearchFile
    \/ SearchDirectory
    \/ SearchEnd
    \/ Summarize
    \/ DocDirectory
    \/ DocSkip
    \/ DocQuery
    \/ Return

SpecPipeline == InitPipeline /\ [][NextPipeline]_vars

(***************************************************************************)
(* query_ollama_for_doc and query_ollama_for_project_overview: the request  *)
(* and the loop over the chunks of the streamed response (the two loops are *)
(* the same code).  serde_json::from_str::<OllamaChunk> is modelled on the  *)
(* lines the streams below are made of: an object with a "response" string, *)
(* an object without one, and text that is no JSON; a piece cut out of such *)
(* a line is no JSON either.                                                *)
(***************************************************************************)
\* lines a stream holds, final line included
MaxLines == 2

ResponsePrefix == "{\"response\":\""
ResponseSuffix == "\"}"

\* the line the server writes for one fragment of the completion
ResponseLine(fragment) == ResponsePrefix \o fragment \o ResponseSuffix

NoQuote(s) == \A i \in 1..Len(s) : Char(s, i) \notin {"\"", "\\"}

\* serde_json::from_str::<OllamaChunk>(line)
ParseOllamaChunk(line) ==
    LET json == Trim(line)
    IN  IF json \in {"{}", "{\"done\":true}"}
        THEN [ok |-> TRUE, response |-> [some |-> FALSE]]
        ELSE IF /\ Len(json) >= Len(ResponsePrefix) + Len(ResponseSuffix)
                /\ StartsWith(json, ResponsePrefix)
                /\ EndsWith(json, ResponseSuffix)
                /\ NoQuote(SubSeq(json, Len(ResponsePrefix) + 1,
                                  Len(json) - Len(ResponseSuffix)))
        THEN [ok |-> TRUE,
              response |-> [some |-> TRUE,
                            text |-> SubSeq(json, Len(ResponsePrefix) + 1,
                                            Len(json) - Len(ResponseSuffix))]]
        ELSE [ok |-> FALSE]

RECURSIVE PushFragments(_, _)
\* for line in chunk_str.lines() { if let Ok(parsed) .. if let Some(text) .. push_str }
PushFragments(acc, lines) ==
    IF lines = <<>> THEN acc
    ELSE LET parsed == ParseOllamaChunk(Head(lines))
         IN  PushFragments(
                 IF parsed.ok /\ parsed.response.some THEN acc \o parsed.response.text
                 ELSE acc,
                 Tail(lines))

\* the lines a server may write
StreamLines ==
    { ResponseLine("//! "), ResponseLine("hi"), "{\"done\":true}", "oops", "" }

RECURSIVE StreamsOf(_)
\* bodies of n lines, each ended by a newline
StreamsOf(n) ==
    IF n = 0 THEN {""}
    ELSE { l \o "\n" \o rest : l \in StreamLines, rest \in StreamsOf(n - 1) }

\* bodies of at most MaxLines lines; the last newline may be missing
Streams ==
    LET whole == UNION { StreamsOf(n) : n \in 0..MaxLines }
    IN  whole \cup { SubSeq(b, 1, Len(b) - 1) : b \in whole \ {""} }

QueryOnly == UNCHANGED <<buildVars, pipeVars, callVars, credVars,
                       prVars, mainVars, dredgeVars>>

\* client.post(url).json(&req_body).send().await?
Send ==
    /\ qpc = "send"
    /\ \E sent \in BOOLEAN :
         IF sent THEN qpc' = "stream" /\ qresult' = qresult
         ELSE qpc' = "done" /\ qresult' = QueryErr
    /\ UNCHANGED <<qstream, qrest, qsplit, full_response>>
    /\ QueryOnly

\* res.chunk().await? gives Some(chunk): any non-empty prefix of what is left
ReceiveChunk ==
    /\ qpc = "stream" /\ qrest # ""
    /\ \E n \in 1..Len(qrest) :
         LET chunk == SubSeq(qrest, 1, n)
         IN  /\ full_response' = PushFragments(full_response, Lines(chunk))
             /\ qrest' = SubSeq(qrest, n + 1, Len(qrest))
             /\ qsplit' = (qsplit \/ (n < Len(qrest) /\ Char(qrest, n) # "\n"))
    /\ UNCHANGED <<qstream, qpc, qresult>>
    /\ QueryOnly

\* res.chunk().await? fails
ChunkError ==
    /\ qpc = "stream"
    /\ qpc' = "done"
    /\ qresult' = QueryErr
    /\ UNCHANGED <<qstream, qrest, qsplit, full_response>>
    /\ QueryOnly

\* res.chunk().await? gives None: Ok(full_response)
EndOfStream ==
    /\ qpc = "stream" /\ qrest = ""
    /\ qpc' = "done"
    /\ qresult' = QueryOk(full_response)
    /\ UNCHANGED <<qstream, qrest, qsplit, full_response>>
    /\ QueryOnly

QueryInit ==
    /\ qstream \in Streams
    /\ qrest = qstream
    /\ qpc = "send"
    /\ qsplit = FALSE
    /\ full_response = ""
    /\ qresult = Running

InitQuery ==
    QueryInit /\ BuildInit /\ PipeIdle /\ CallIdle /\ CredIdle /\ OthersIdle

NextQuery ==
    \/ Send
    \/ ReceiveChunk
    \/ ChunkError
    \/ EndOfStream

SpecQuery == InitQuery /\ [][NextQuery]_vars

(***************************************************************************)
(* One remote request of the tree build, taken by itself: the listing       *)
(* request of read_repo_recursive or the content request of                 *)
(* fetch_file_content, the response to it, and the value the code makes of  *)
(* the response.                                                            *)
(***************************************************************************)
\* bodies of responses that are no listing
ErrorBodies == {"", "{\"message\":\"Not Found\"}", "Bad credentials"}

\* the body of an empty listing
EmptyListing == "[]"

\* responses to a listing request, with their body: the empty listing when the
\* body is a Vec<RepoContent>
ListAnswers ==
    { [transport |-> r.transport, status |-> r.status, parses |-> r.parses, body |-> b] :
        r \in ListResponses, b \in ErrorBodies \cup {EmptyListing} }

Calls ==
    { [kind |-> "list", path |-> p, response |-> r] :
        p \in {"", "sub"},
        r \in { a \in ListAnswers : a.parses <=> (a.body = EmptyListing) } }
    \cup
    { [kind |-> "file", path |-> p, response |-> r] :
        p \in {"a.rs", "sub/a.rs"}, r \in FileResponses }

CallOnly == UNCHANGED <<buildVars, pipeVars, queryVars, credVars,
                       prVars, mainVars, dredgeVars>>

\* the listing request answered: the Directory of an empty listing, or the error
ListingAnswered ==
    /\ call.kind = "list" /\ callResult = Running
    /\ callResult' = IF ListSucceeds(call.response)
                     THEN Ok(Directory(call.path, call.path, <<>>, SumTokenCounts(<<>>)))
                     ELSE Err(ListError(call.response))
    /\ UNCHANGED call
    /\ CallOnly

\* the content request answered: the Result of fetch_file_content
FileAnswered ==
    /\ call.kind = "file" /\ callResult = Running
    /\ callResult' = fetch_file_content(call.response)
    /\ UNCHANGED call
    /\ CallOnly

CallInit ==
    /\ call \in Calls
    /\ callResult = Running

InitResponse ==
    CallInit /\ BuildInit /\ PipeIdle /\ QueryIdle /\ CredIdle /\ OthersIdle

NextResponse ==
    \/ ListingAnswered
    \/ FileAnswered

SpecResponse == InitResponse /\ [][NextResponse]_vars

(***************************************************************************)
(* The credential check of main.rs, check_and_setup (the same code is       *)
(* utils/cli.rs get_token_from_env), and validate_token (main.rs and, with  *)
(* DredgerError values, github_client/client.rs).                           *)
(***************************************************************************)
\* Option
None == [some |-> FALSE]
Some(v) == [some |-> TRUE, value |-> v]

\* Ok(())
OkUnit == [tag |-> "Ok"]
\* a &'static str or String error value
Message(text) == [variant |-> "String", msg |-> [text |-> text]]
\* .expect(message) on an Err value
PanickedWith(message) == [tag |-> "panic", payload |-> message]

\* what a path of the working directory may hold: nothing; a file that cannot
\* be opened; something that opens and does not read as text (a directory,
\* bytes that are no UTF-8); a text file
Missing == [exists |-> FALSE, opens |-> FALSE, reads |-> FALSE, text |-> ""]
NoPermission == [exists |-> TRUE, opens |-> FALSE, reads |-> FALSE, text |-> ""]
NotText == [exists |-> TRUE, opens |-> TRUE, reads |-> FALSE, text |-> ""]
TextFile(t) == [exists |-> TRUE, opens |-> TRUE, reads |-> TRUE, text |-> t]

EnvTexts == {"", "GITHUB_PAT=test_token", "# GITHUB_PAT\nUSER=me\n"}
EnvFileStates == {Missing, NoPermission, NotText} \cup { TextFile(t) : t \in EnvTexts }
Suffixes == {None, Some("x7")}
EnvFileNames == {".env", ".env.test", ".env.test.x7"}

\* env::var("ENV").unwrap_or_else(|_| "production".to_string())
CurrentEnv == IF ENV.some THEN ENV.value ELSE "production"

\* env_file of check_and_setup
EnvFile(suffix) ==
    IF CurrentEnv = "test"
    THEN IF suffix.some THEN ".env.test." \o suffix.value ELSE ".env.test"
    ELSE ".env"

\* str::contains
Contains(s, sub) ==
    \E k \in 1..(Len(s) - Len(sub) + 1) : SubSeq(s, k, k + Len(sub) - 1) = sub

\* check_and_setup (get_token_from_env)
check_and_setup(suffix) ==
    LET file == envFiles[EnvFile(suffix)]
    IN  IF ~file.exists THEN Err(Message("Missing .env file"))
        ELSE IF ~file.opens THEN PanickedWith("Unable to open .env file")
        ELSE IF ~file.reads THEN PanickedWith("Unable to read .env file")
        ELSE IF ~Contains(file.text, "GITHUB_PAT=")
             THEN Err(Message("Missing GITHUB_PAT in .env file"))
        ELSE OkUnit

CredOnly == UNCHANGED <<buildVars, pipeVars, queryVars, callVars,
                       prVars, mainVars, dredgeVars>>

\* a call of check_and_setup
CheckAndSetup ==
    /\ checked = Idle
    /\ checked' = check_and_setup(checkSuffix)
    /\ UNCHANGED <<ENV, GITHUB_PAT, envFiles, checkSuffix, validator, whoami, validated>>
    /\ CredOnly

\* url of validate_token
WhoamiUrl ==
    IF CurrentEnv = "test" THEN "mockito::server_url/user" ELSE "https://api.github.com/user"

\* no response yet
Pending == [transport |-> "pending", status |-> 0, body |-> None]

WhoamiStatuses == {200, 204, 401, 500}

\* responses to the whoami request: transport failure, or a status and a body
\* that reads as text or does not
WhoamiResponses ==
    { [transport |-> "error", status |-> 0, body |-> None] } \cup
    { [transport |-> "ok", status |-> st, body |-> b] :
        st \in WhoamiStatuses,
        b \in {None, Some("{\"login\": \"test_user\"}"), Some("Bad credentials")} }

\* format!("Request failed with status {}: {}", status, body)
RequestFailed(status, body) ==
    [text |-> "Request failed with status", status |-> status,
     body |-> IF body.some THEN body.value ELSE "Unknown error"]

\* the Err values of the two validate_token: String in main.rs, DredgerError in
\* github_client
MissingPat(v) ==
    IF v = "main" THEN Message("Missing GITHUB_PAT environment variable") ELSE VarError
StatusError(v, resp) ==
    [variant |-> IF v = "main" THEN "String" ELSE "GithubClientError",
     msg |-> RequestFailed(resp.status, resp.body)]
SendError(v) ==
    IF v = "main" THEN Message("Request failed with error") ELSE ReqwestError

\* validate_token up to the await of send: the token lookup, the request
ValidateToken ==
    /\ validated = Idle
    /\ mpc \in {"none", "validate"}
    /\ IF ~GITHUB_PAT.some
       THEN /\ validated' = Err(MissingPat(validator))
            /\ whoami' = whoami
       ELSE /\ validated' = Running
            /\ whoami' = Append(whoami,
                  [url |-> WhoamiUrl, authorization |-> "Bearer " \o GITHUB_PAT.value,
                   user_agent |-> "dredger", response |-> Pending])
    /\ UNCHANGED <<ENV, GITHUB_PAT, envFiles, checkSuffix, checked, validator>>
    /\ CredOnly

\* a validate_token that takes for valid every status but 401
WhoamiAnsweredUnauthorizedOnly ==
    /\ validated = Running
    /\ \E resp \in WhoamiResponses :
         /\ whoami' = [whoami EXCEPT ![Len(whoami)].response = resp]
         /\ validated' = IF resp.transport = "error" THEN Err(SendError(validator))
                         ELSE IF resp.status # 401 THEN OkUnit
                         ELSE Err(StatusError(validator, resp))
    /\ UNCHANGED <<ENV, GITHUB_PAT, envFiles, checkSuffix, checked, validator>>
    /\ CredOnly

\* validate_token after the await: match res
WhoamiAnswered ==
    /\ validated = Running
    /\ \E resp \in WhoamiResponses :
         /\ whoami' = [whoami EXCEPT ![Len(whoami)].response = resp]
         /\ validated' = IF resp.transport = "error" THEN Err(SendError(validator))
                         ELSE IF is_success(resp.status) THEN OkUnit
                         ELSE Err(StatusError(validator, resp))
    /\ UNCHANGED <<ENV, GITHUB_PAT, envFiles, checkSuffix, checked, validator>>
    /\ CredOnly

CredInit ==
    /\ ENV \in {None, Some("test"), Some("production")}
    /\ GITHUB_PAT \in {None, Some("test_token")}
    /\ envFiles \in [EnvFileNames -> EnvFileStates]
    /\ checkSuffix \in Suffixes
    /\ checked = Idle
    /\ validator \in {"main", "github_client"}
    /\ whoami = <<>>
    /\ validated = Idle

InitCredentials ==
    CredInit /\ BuildInit /\ PipeIdle /\ QueryIdle /\ CallIdle /\ OthersIdle

NextCredentials ==
    \/ CheckAndSetup
    \/ ValidateToken
    \/ WhoamiAnswered

SpecCredentials == InitCredentials /\ [][NextCredentials]_vars

(***************************************************************************)
(* The write-side workflow: open_test_pr and the calls it makes through    *)
(* make_request (github_client/client.rs; main.rs holds the same code).    *)
(***************************************************************************)
PrStatuses == {200, 201, 404, 422}

\* a response body: text that is no JSON, or a JSON value with or without
\* ["object"]["sha"] and ["html_url"]
NotJson == [json |-> FALSE, sha |-> None, html_url |-> None]
Json(sha, html_url) == [json |-> TRUE, sha |-> sha, html_url |-> html_url]
BaseSha == "abc123"
PrUrl == "https://github.com/nickagliano/tbg-rust/pull/1"
PrBodies == {NotJson, Json(None, None), Json(Some(BaseSha), None), Json(None, Some(PrUrl))}

PrPending == [transport |-> "pending", status |-> 0, body |-> NotJson]
PrResponses ==
    { [transport |-> "error", status |-> 0, body |-> NotJson] } \cup
    { [transport |-> "ok", status |-> st, body |-> b] : st \in PrStatuses, b \in PrBodies }

IoError(text) == [variant |-> "io::Error", msg |-> [text |-> text]]
BoxedSerdeError == [variant |-> "serde_json::Error"]

\* make_request, from the response on
make_request(resp) ==
    IF resp.transport = "error" THEN [ok |-> FALSE, error |-> BoxedReqwestError]
    ELSE IF ~is_success(resp.status) THEN [ok |-> FALSE, error |-> IoError("Request failed")]
    ELSE IF ~resp.body.json THEN [ok |-> FALSE, error |-> BoxedSerdeError]
    ELSE [ok |-> TRUE, value |-> resp.body]

\* the request make_request sends
PrCall(name, method, url, body) ==
    [name |-> name, method |-> method, url |-> url, body |-> body,
     authorization |-> "Bearer " \o GITHUB_PAT.value, user_agent |-> "dredger",
     response |-> PrPending]

RepoUrl == "https://api.github.com/repos/nickagliano/tbg-rust"
new_branch == "hello-world-test-1"
base_branch == "master"

GetBaseRef == PrCall("base_ref", "GET", RepoUrl \o "/git/ref/heads/" \o base_branch, None)
\* create_branch
CreateBranch(base_sha) ==
    PrCall("create_branch", "POST", RepoUrl \o "/git/refs",
           Some([ref |-> "refs/heads/" \o new_branch, sha |-> base_sha]))
\* add_file_to_repo; the content is "hello world" in base64
AddFile ==
    PrCall("add_file", "PUT", RepoUrl \o "/contents/hello.txt",
           Some([message |-> "Add hello.txt", content |-> "aGVsbG8gd29ybGQ=",
                 branch |-> new_branch]))
\* create_pull_request
CreatePullRequest ==
    PrCall("create_pull_request", "POST", RepoUrl \o "/pulls",
           Some([title |-> "Test PR: Hello World", head |-> new_branch,
                 base |-> base_branch, body |-> "This PR adds a hello world file."]))

PrOnly == UNCHANGED <<buildVars, pipeVars, queryVars, callVars, credVars, mainVars,
                      dredgeVars>>

\* the response to the call that is awaited
Answer(resp) == [prCalls EXCEPT ![Len(prCalls)].response = resp]

\* the `?` of open_test_pr
PrFail(resp, error) ==
    /\ prCalls' = Answer(resp)
    /\ prResult' = Err(error)
    /\ prpc' = "done"

\* the call awaited has succeeded: the next one is sent
PrProceed(resp, next, pc) ==
    /\ prCalls' = Append(Answer(resp), next)
    /\ prResult' = prResult
    /\ prpc' = pc

\* open_test_pr up to the first await: the token lookup, the base ref request
StartOpenTestPr ==
    IF ~GITHUB_PAT.some
    THEN /\ prResult' = Err(Message("Missing GITHUB_PAT environment variable"))
         /\ prpc' = "done"
         /\ prCalls' = prCalls
    ELSE /\ prResult' = Running
         /\ prpc' = "base_ref"
         /\ prCalls' = Append(prCalls, GetBaseRef)

\* open_test_pr called on its own or by main
OpenTestPr ==
    /\ prpc = "idle"
    /\ mpc \in {"none", "workflow"}
    /\ StartOpenTestPr
    /\ PrOnly

(***************************************************************************)
(* core/actions.rs: dredge_repo, from the return of read_repo on.          *)
(***************************************************************************)
\* a dredge_repo that has found documentation worth a pull request
open_new_pr_flag_set == TRUE

\* let open_new_pr_flag = false;
open_new_pr_flag == FALSE

\* read_repo has returned: the pull request if the flag says so, then root_node
\* is returned as it is
DredgeReturn ==
    /\ dredged = Idle
    /\ result.tag \in {"Ok", "Err"}
    /\ IF open_new_pr_flag THEN StartOpenTestPr ELSE UNCHANGED prVars
    /\ dredged' = result
    /\ UNCHANGED <<buildVars, pipeVars, queryVars, callVars, credVars, mainVars>>

NextDredge ==
    \/ ReadRepo
    \/ ListFail
    \/ ListOk
    \/ FetchFile
    \/ TokenizeFile
    \/ EnterDir
    \/ SkipEntry
    \/ ReturnDirectory
    \/ DredgeReturn

SpecDredge == Init /\ [][NextDredge]_vars

\* the base ref answered: base_sha, then create_branch up to its await
BaseRefAnswered ==
    /\ prpc = "base_ref"
    /\ \E resp \in PrResponses :
         LET r == make_request(resp)
         IN  IF ~r.ok THEN PrFail(resp, r.error)
             ELSE IF ~r.value.sha.some
                  THEN PrFail(resp, Message("Could not find base SHA"))
             ELSE PrProceed(resp, CreateBranch(r.value.sha.value), "create_branch")
    /\ PrOnly

\* a workflow that adds the file whatever became of the branch
BranchAnsweredLenient ==
    /\ prpc = "create_branch"
    /\ \E resp \in PrResponses : PrProceed(resp, AddFile, "add_file")
    /\ PrOnly

\* create_branch answered, then add_file_to_repo up to its await
BranchAnswered ==
    /\ prpc = "create_branch"
    /\ \E resp \in PrResponses :
         LET r == make_request(resp)
         IN  IF ~r.ok THEN PrFail(resp, r.error)
             ELSE PrProceed(resp, AddFile, "add_file")
    /\ PrOnly

\* add_file_to_repo answered, then create_pull_request up to its await
FileAdded ==
    /\ prpc = "add_file"
    /\ \E resp \in PrResponses :
         LET r == make_request(resp)
         IN  IF ~r.ok THEN PrFail(resp, r.error)
             ELSE PrProceed(resp, CreatePullRequest, "create_pull_request")
    /\ PrOnly

\* create_pull_request answered: pr_url, and open_test_pr returns
PullRequestAnswered ==
    /\ prpc = "create_pull_request"
    /\ \E resp \in PrResponses :
         LET r == make_request(resp)
         IN  IF ~r.ok THEN PrFail(resp, r.error)
             ELSE IF ~r.value.html_url.some
                  THEN PrFail(resp, Message("PR URL not found"))
             ELSE /\ prCalls' = Answer(resp)
                  /\ prResult' = OkUnit
                  /\ prpc' = "done"
    /\ PrOnly

PrInit ==
    /\ PrIdle
    /\ GITHUB_PAT \in {None, Some("test_token")}
    /\ ENV \in {None, Some("test")}
    /\ envFiles = <<>>
    /\ checkSuffix = None
    /\ checked = Idle
    /\ validator = "main"
    /\ whoami = <<>>
    /\ validated = Idle

InitPr ==
    PrInit /\ BuildInit /\ PipeIdle /\ QueryIdle /\ CallIdle /\ MainIdle /\ DredgeIdle

NextPr ==
    \/ OpenTestPr
    \/ BaseRefAnswered
    \/ BranchAnswered
    \/ FileAdded
    \/ PullRequestAnswered

SpecPr == InitPr /\ [][NextPr]_vars

(***************************************************************************)
(* main (main.rs): load_env, the credential loop, and the call of          *)
(* open_test_pr.                                                           *)
(***************************************************************************)
PatKey == "GITHUB_PAT="

\* the value dotenv gives GITHUB_PAT from the text of an env file, if any
DotenvPat(text) ==
    LET entries == SelectSeq(Lines(text), LAMBDA line : StartsWith(line, PatKey))
    IN  IF entries = <<>> THEN None
        ELSE Some(SubSeq(entries[1], Len(PatKey) + 1, Len(entries[1])))

\* new_content of setup
NewContent(file_content, token) ==
    IF Contains(file_content, PatKey)
    THEN LET lines == Lines(file_content)
         IN  Join([i \in DOMAIN lines |->
                      IF StartsWith(lines[i], PatKey) THEN PatKey \o token ELSE lines[i]],
                  "\n")
    ELSE IF file_content = "" THEN PatKey \o token \o "\n"
    ELSE file_content \o "\n" \o PatKey \o token \o "\n"

\* what the user types at the prompt, trimmed
TypedTokens == {"new_token"}

Prompts == Cardinality({ i \in DOMAIN mainLog : mainLog[i] = "prompt" })

\* a panic ends the process with status 101, exit(1) with status 1
Abort(event) ==
    /\ mpc' = "panicked"
    /\ exit_status' = Some(101)
    /\ mainLog' = mainLog \o event
Exit1(event) ==
    /\ mpc' = "exited"
    /\ exit_status' = Some(1)
    /\ mainLog' = mainLog \o event

\* main up to the loop: load_env; dotenv sets no variable that is set already
\* and its errors are dropped
LoadEnv ==
    /\ mpc = "start"
    /\ LET file == envFiles[EnvFile(None)]
           pat == IF file.exists /\ file.opens /\ file.reads
                  THEN DotenvPat(file.text) ELSE None
       IN  GITHUB_PAT' = IF GITHUB_PAT.some THEN GITHUB_PAT ELSE pat
    /\ mpc' = "check"
    /\ UNCHANGED <<ENV, envFiles, checkSuffix, checked, validator, whoami, validated>>
    /\ UNCHANGED <<quiet, exit_status, mainLog>>
    /\ UNCHANGED <<buildVars, pipeVars, queryVars, callVars, prVars, dredgeVars>>

\* the top of the loop: check_and_setup(None) and what main does on Err
MainCheck ==
    /\ mpc = "check"
    /\ checked' = check_and_setup(None)
    /\ IF checked'.tag = "panic" THEN Abort(<<"check_panic">>)
       ELSE IF checked'.tag = "Err"
       THEN IF quiet THEN Exit1(<<"check_err", "exit">>)
            ELSE /\ mpc' = "setup_first"
                 /\ mainLog' = Append(mainLog, "check_err")
                 /\ exit_status' = exit_status
       ELSE /\ mpc' = "validate"
            /\ mainLog' = Append(mainLog, "check_ok")
            /\ exit_status' = exit_status
    /\ validated' = Idle
    /\ UNCHANGED <<ENV, GITHUB_PAT, envFiles, checkSuffix, validator, whoami, quiet>>
    /\ UNCHANGED <<buildVars, pipeVars, queryVars, callVars, prVars, dredgeVars>>

\* setup(quiet): the prompt, the line read from stdin, the env file rewritten,
\* GITHUB_PAT set; then main goes on: to validate_token after a failed
\* check_and_setup, to the top of the loop (continue) after an invalid token
Setup ==
    /\ mpc \in {"setup_first", "setup_retry"}
    /\ Prompts < MaxPrompts
    /\ LET next == IF mpc = "setup_first" THEN "validate" ELSE "check"
           file == envFiles[EnvFile(None)]
           file_content == IF file.exists /\ file.opens /\ file.reads
                           THEN file.text ELSE ""
       IN  IF quiet
           THEN /\ mpc' = next
                /\ UNCHANGED <<GITHUB_PAT, envFiles, exit_status, mainLog>>
           ELSE \E lineOk \in BOOLEAN, writeOk \in BOOLEAN, token \in TypedTokens :
                  IF ~lineOk
                  THEN /\ Abort(<<"prompt", "setup_panic">>)
                       /\ UNCHANGED <<GITHUB_PAT, envFiles>>
                  ELSE IF ~writeOk
                  THEN /\ Abort(<<"prompt", "setup_panic">>)
                       /\ UNCHANGED <<GITHUB_PAT, envFiles>>
                  ELSE /\ envFiles' = [envFiles EXCEPT ![EnvFile(None)] =
                                           TextFile(NewContent(file_content, token))]
                       /\ GITHUB_PAT' = Some(token)
                       /\ mpc' = next
                       /\ mainLog' = Append(mainLog, "prompt")
                       /\ exit_status' = exit_status
    /\ validated' = Idle
    /\ UNCHANGED <<ENV, checkSuffix, checked, validator, whoami, quiet>>
    /\ UNCHANGED <<buildVars, pipeVars, queryVars, callVars, prVars, dredgeVars>>

\* a main that leaves the loop whatever validate_token returned
MainValidatedAnyway ==
    /\ mpc = "validate"
    /\ validated.tag \in {"Ok", "Err"}
    /\ mpc' = "workflow"
    /\ mainLog' = Append(mainLog, IF validated.tag = "Err" THEN "invalid" ELSE "valid")
    /\ UNCHANGED <<quiet, exit_status>>
    /\ UNCHANGED <<buildVars, pipeVars, queryVars, callVars, credVars, prVars, dredgeVars>>

\* validate_token has returned: exit(1), setup and continue, or break
MainValidated ==
    /\ mpc = "validate"
    /\ validated.tag \in {"Ok", "Err"}
    /\ IF validated.tag = "Err"
       THEN IF quiet THEN Exit1(<<"invalid", "exit">>)
            ELSE /\ mpc' = "setup_retry"
                 /\ mainLog' = Append(mainLog, "invalid")
                 /\ exit_status' = exit_status
       ELSE /\ mpc' = "workflow"
            /\ mainLog' = Append(mainLog, "valid")
            /\ exit_status' = exit_status
    /\ quiet' = quiet
    /\ UNCHANGED <<buildVars, pipeVars, queryVars, callVars, credVars, prVars, dredgeVars>>

MainInit ==
    /\ quiet \in BOOLEAN
    /\ mpc = "start"
    /\ exit_status = None
    /\ mainLog = <<>>
    /\ ENV \in {None, Some("test")}
    /\ GITHUB_PAT \in {None, Some("test_token")}
    /\ envFiles \in { f \in [EnvFileNames -> EnvFileStates] :
                        \A n \in EnvFileNames : n # EnvFile(None) => f[n] = Missing }
    /\ checkSuffix = None
    /\ checked = Idle
    /\ validator = "main"
    /\ whoami = <<>>
    /\ validated = Idle

InitMain ==
    MainInit /\ BuildInit /\ PipeIdle /\ QueryIdle /\ CallIdle /\ PrIdle /\ DredgeIdle

\* open_test_pr is followed up to its first request; the rest of it is SpecPr
NextMain ==
    \/ LoadEnv
    \/ MainCheck
    \/ Setup
    \/ ValidateToken
    \/ WhoamiAnswered
    \/ MainValidated
    \/ OpenTestPr

SpecMain == InitMain /\ [][NextMain]_vars

(***************************************************************************)
(* Properties of the tree build.                                           *)
(***************************************************************************)
Last(seq) == seq[Len(seq)]

RECURSIVE NodesOf(_)
\* every node of a tree, the root included
NodesOf(node) ==
    {node} \cup
    (IF node.kind = "Directory"
     THEN UNION { NodesOf(node.children[i]) : i \in DOMAIN node.children }
     ELSE {})

\* the nodes read_repo_recursive has returned so far: the result, and the
\* children held by the activations still running
ReturnedNodes ==
    (IF result.tag = "Ok" THEN NodesOf(result.node) ELSE {}) \cup
    UNION { UNION { NodesOf(stack[d].children[i]) : i \in DOMAIN stack[d].children } :
            d \in DOMAIN stack }

\* the token counts of a node's direct children, added up
ChildTokenTotal(node) ==
    LET partial[i \in 0..Len(node.children)] ==
            IF i = 0 THEN 0 ELSE partial[i - 1] + node.children[i].token_count
    IN  partial[Len(node.children)]

\* the token counts of the File nodes of a tree, added up
FileTokenTotal(node) ==
    LET files == { n \in NodesOf(node) : n.kind = "File" }
        paths == { n.path : n \in files }
        RECURSIVE Total(_)
        Total(ps) ==
            IF ps = {} THEN 0
            ELSE LET q == CHOOSE q \in ps : TRUE
                     n == CHOOSE n \in files : n.path = q
                 IN  n.token_count + Total(ps \ {q})
    IN  Total(paths)

\* C1: in every tree the build returns, a Directory's token_count is the sum of
\* its direct children's token_count, hence of the File nodes below it; a
\* Directory without children counts 0.
C1_DirectoryTokenSum ==
    \A n \in ReturnedNodes :
        n.kind = "Directory" =>
            /\ n.token_count = ChildTokenTotal(n)
            /\ n.token_count = FileTokenTotal(n)
            /\ (n.children = <<>> => n.token_count = 0)

\* a root holding a file and a subdirectory that holds a file, both counted
C1_Witness ==
    /\ result.tag = "Ok"
    /\ \E i, j \in DOMAIN result.node.children :
         LET f == result.node.children[i]
             d == result.node.children[j]
         IN  /\ f.kind = "File" /\ f.token_count > 0
             /\ d.kind = "Directory" /\ Len(d.children) = 1
             /\ d.children[1].kind = "File" /\ d.children[1].token_count > 0
             /\ result.node.token_count = f.token_count + d.children[1].token_count

FailedFetches == { i \in DOMAIN requests : requests[i].kind = "file" /\ ~requests[i].ok }

\* in a returned tree, every file whose fetch failed is a File node holding the
\* placeholder, and every file and dir entry of every listing was visited
C2_ReturnedTree ==
    result.tag = "Ok" =>
        /\ \A i \in FailedFetches :
             \E n \in NodesOf(result.node) :
                n.kind = "File" /\ n.path = requests[i].path /\ n.content = Placeholder
        /\ \A i \in DOMAIN requests :
             (requests[i].kind = "list" /\ requests[i].ok) =>
                \A k \in DOMAIN requests[i].entries :
                    LET e == requests[i].entries[k]
                    IN  e.type \in {"file", "dir"} =>
                           \E j \in DOMAIN requests :
                              /\ j > i
                              /\ requests[j].path = e.path
                              /\ requests[j].kind = (IF e.type = "file" THEN "file" ELSE "list")

\* the step of a failed fetch leaves the build running, the placeholder in hand
C2_FailedFetchStep ==
    (/\ Len(requests') = Len(requests) + 1
     /\ Last(requests').kind = "file"
     /\ ~Last(requests').ok)
    => /\ result' = Running
       /\ stack' # <<>>
       /\ Len(stack') = Len(stack)
       /\ Last(stack').pc = "tokenize"
       /\ Last(stack').content = Placeholder

\* C2: a failed content fetch of a file entry never aborts the build: the File
\* node is created with the placeholder content and the later entries of the
\* listing are still visited.
C2_FetchFailureIsDowngraded == [][C2_FailedFetchStep]_vars /\ []C2_ReturnedTree

\* a tree returned although a fetch failed, a sibling fetched after the failure
C2_Witness ==
    /\ result.tag = "Ok"
    /\ \E i \in FailedFetches : \E j \in DOMAIN requests :
         /\ j > i
         /\ requests[j].kind = "file"
         /\ \E l \in DOMAIN requests :
              /\ requests[l].kind = "list" /\ requests[l].ok
              /\ \E a, b \in DOMAIN requests[l].entries :
                   /\ a < b
                   /\ requests[l].entries[a].path = requests[i].path
                   /\ requests[l].entries[b].path = requests[j].path

\* C3: when the tokenizer cannot be loaded for a file entry, at any depth, the
\* build ends with the tokenizer error (FileNotFound for a missing path, LoadError
\* for a malformed model) and returns no RepoNode.
C3_TokenizerLoadFailureIsFatal ==
    \A i \in DOMAIN tokenizerLog :
        /\ tokenizerLog[i].tokenizer = "missing" =>
              (result = Err(TokenizerFileNotFound) /\ stack = <<>>)
        /\ tokenizerLog[i].tokenizer = "malformed" =>
              (result = Err(TokenizerLoadError) /\ stack = <<>>)

\* the load fails on a file of a subdirectory, after a File node was built
C3_Witness ==
    /\ Len(tokenizerLog) >= 2
    /\ Last(tokenizerLog).tokenizer = "malformed"
    /\ StartsWith(Last(tokenizerLog).path, "sub/")
    /\ result = Err(TokenizerLoadError)

\* C4: when a listing request fails, at any depth, read_repo returns the error
\* and no RepoNode, whatever had been built.
C4_ListingFailureIsFatal ==
    (\E i \in DOMAIN requests : requests[i].kind = "list" /\ ~requests[i].ok)
    => /\ result.tag = "Err"
       /\ result.error.variant \in {"ReqwestError", "GithubClientError"}
       /\ stack = <<>>

\* the listing of a subdirectory fails after a File node was built
C4_Witness ==
    /\ requests # <<>>
    /\ Last(requests) = ListRequest("sub", FALSE, <<>>)
    /\ \E i \in DOMAIN tokenizerLog : tokenizerLog[i].encode = "ok"
    /\ result.tag = "Err"

\* C5: a tokenization failure is returned to the caller of read_repo as a
\* TokenizationError value.
C5_TokenizationErrorIsReturned ==
    (\E i \in DOMAIN tokenizerLog : tokenizerLog[i].encode = "error")
    => /\ result.tag = "Err"
       /\ result.error.variant = "TokenizerError"
       /\ result.error.inner.variant = "TokenizationError"

\* the entries of a listing that the loop makes a node of
NodeEntries(entries) == SelectSeq(entries, LAMBDA e : e.type \in {"file", "dir"})

\* the listing the remote gave for a directory
ListingOf(path) ==
    LET i == CHOOSE i \in DOMAIN requests :
                 requests[i].kind = "list" /\ requests[i].ok /\ requests[i].path = path
    IN  requests[i].entries

\* children are, one for one and in order, nodes of the file and dir entries
InListingOrder(children, entries) ==
    LET made == NodeEntries(entries)
    IN  /\ Len(children) = Len(made)
        /\ \A k \in DOMAIN children :
             /\ children[k].path = made[k].path
             /\ children[k].kind = (IF made[k].type = "file" THEN "File" ELSE "Directory")

\* path q is path p or lies below it
Below(p, q) == q = p \/ StartsWith(q, p \o "/")

\* every request made for an entry or below it comes before every request made
\* for a later entry of the same listing or below that
DepthFirstRequests ==
    \A l \in DOMAIN requests :
        (requests[l].kind = "list" /\ requests[l].ok) =>
            \A a, b \in DOMAIN requests[l].entries :
                a < b =>
                    \A j, k \in DOMAIN requests :
                        (/\ Below(requests[l].entries[a].path, requests[j].path)
                         /\ Below(requests[l].entries[b].path, requests[k].path))
                        => j < k

\* C11: the children of every Directory node built are the nodes of the file and
\* dir entries of that directory's listing, in listing order; a running
\* activation holds the finished nodes of exactly the entries before its loop
\* position, so a subdirectory is complete before the next sibling is touched.
C11_ChildrenInListingOrder ==
    /\ \A n \in ReturnedNodes :
         n.kind = "Directory" =>
            /\ \E i \in DOMAIN requests :
                  requests[i].kind = "list" /\ requests[i].ok /\ requests[i].path = n.path
            /\ InListingOrder(n.children, ListingOf(n.path))
    /\ \A d \in DOMAIN stack :
         stack[d].pc # "list" =>
            InListingOrder(stack[d].children,
                           SubSeq(stack[d].entries, 1, stack[d].idx - 1))
    /\ DepthFirstRequests

\* a returned root listed as file, subdirectory holding a file, file: the names
\* are in no sorted order
C11_Witness ==
    /\ result.tag = "Ok"
    /\ Len(result.node.children) = 3
    /\ result.node.children[1].path = "a.rs"
    /\ result.node.children[2].kind = "Directory"
    /\ Len(result.node.children[2].children) = 1
    /\ result.node.children[3].path = "README.md"

\* C16: one tree build loads the tokenizer from disk at most once, however many
\* file entries the repository has.
C16_TokenizerLoadedOnce == tokenizerLoads <= 1

\* what the build does: one load for each file entry it gets to tokenize
TokenizerLoadedPerFile ==
    tokenizerLoads =
        Cardinality({ i \in DOMAIN tokenizerLog : tokenizerLog[i].tokenizer # "missing" })

\* read_repo has returned to its caller: a RepoNode or an error
Returned == result.tag \in {"Ok", "Err"}

\* no path is listed twice and no file is fetched twice; the first request lists
\* the root, every other one is for a dir or file entry of an earlier listing
OneRequestPerEntry ==
    /\ \A i, j \in DOMAIN requests :
         (requests[i].kind = requests[j].kind /\ requests[i].path = requests[j].path)
         => i = j
    /\ \A j \in DOMAIN requests :
         IF j = 1 THEN requests[j].kind = "list" /\ requests[j].path = ""
         ELSE \E i \in 1..(j - 1) :
                /\ requests[i].kind = "list" /\ requests[i].ok
                /\ \E k \in DOMAIN requests[i].entries :
                     /\ requests[i].entries[k].path = requests[j].path
                     /\ requests[i].entries[k].type =
                           (IF requests[j].kind = "list" THEN "dir" ELSE "file")

\* C18: when every request is answered, read_repo returns in the end, a RepoNode
\* or an error, having sent one listing request for each directory and one
\* content request for each file entry it reached.
C18_BuildReturns == <>Returned /\ []OneRequestPerEntry

\* what the build does: it ends, by returning or by the panic of the tokenization
BuildEnds == <>(Returned \/ result = Panicked) /\ []OneRequestPerEntry

SumPanicsOrFits ==
    /\ result.tag = "Ok" => result.node.token_count \in 0..UsizeMax
    /\ result = PanickedOverflow => stack = <<>>

\* the request or tokenizer load that made the build fail is the last one
FatalTriggerIsLast ==
    /\ stack = <<>>
    /\ requests # <<>>
    /\ \/ Last(requests).kind = "list" /\ ~Last(requests).ok
       \/ /\ Last(requests).kind = "file"
          /\ tokenizerLog # <<>>
          /\ Last(tokenizerLog).path = Last(requests).path
          /\ Last(tokenizerLog).tokenizer \in {"missing", "malformed"}

\* C24: once a listing failure or a tokenizer load failure has made the build
\* fail, at any depth, the build issues no other remote request: no activation
\* is left to fetch the remaining entries of its listing.
C24_NoRequestAfterFatalError ==
    /\ []((result.tag = "Err" /\ result.error # VarError) => FatalTriggerIsLast)
    /\ [][result.tag = "Err" =>
            (requests' = requests /\ tokenizerLoads' = tokenizerLoads)]_vars

\* the build has failed below a subdirectory while an entry of the root listing
\* was still to be fetched
C24_Witness ==
    /\ result.tag = "Err"
    /\ Len(requests) >= 2
    /\ requests[1].kind = "list" /\ requests[1].ok
    /\ StartsWith(Last(requests).path, "sub")
    /\ \E k \in DOMAIN requests[1].entries :
         /\ requests[1].entries[k].type \in {"file", "dir"}
         /\ \A i \in DOMAIN requests : requests[i].path # requests[1].entries[k].path

\* the entries of the listings received whose type is neither "file" nor "dir"
OtherEntries ==
    UNION { { requests[i].entries[k] :
                k \in { j \in DOMAIN requests[i].entries :
                          requests[i].entries[j].type \notin {"file", "dir"} } } :
            i \in { j \in DOMAIN requests : requests[j].kind = "list" /\ requests[j].ok } }

\* nothing was requested, tokenized or built for such an entry
LeftNoTrace(entry) ==
    /\ \A i \in DOMAIN requests : requests[i].path # entry.path
    /\ \A i \in DOMAIN tokenizerLog : tokenizerLog[i].path # entry.path
    /\ \A n \in ReturnedNodes : n.path # entry.path

\* the loop is at such an entry
AtOtherEntry ==
    /\ stack # <<>> /\ Top.pc = "loop" /\ Top.idx <= Len(Top.entries)
    /\ Top.entries[Top.idx].type \notin {"file", "dir"}

\* C29: a listing entry that is neither "file" nor "dir" is skipped: no node,
\* no remote request and no tokenizer load are made for it, it adds nothing to
\* a token count and the build goes on with the next entry; a returned tree
\* holds one node for each file and dir entry of the listings and no other.
C29_OtherEntriesAreSkipped ==
    /\ [](\A entry \in OtherEntries : LeftNoTrace(entry))
    /\ [](result.tag = "Ok" =>
            \A n \in NodesOf(result.node) :
                n.kind = "Directory" =>
                    /\ Len(n.children) = Len(NodeEntries(ListingOf(n.path)))
                    /\ \A k \in DOMAIN n.children :
                         n.children[k].path = NodeEntries(ListingOf(n.path))[k].path
                    /\ n.token_count = FileTokenTotal(n))
    /\ [][AtOtherEntry =>
            /\ stack' = SetTop([Top EXCEPT !.idx = @ + 1])
            /\ UNCHANGED <<result, requests, tokenizerLoads, tokenizerLog>>]_vars

\* a tree returned from a root listing that holds a symlink between two files
C29_Witness ==
    /\ result.tag = "Ok"
    /\ Len(result.node.children) = 2
    /\ Len(requests[1].entries) = 3
    /\ requests[1].entries[2].type = "symlink"
    /\ result.node.token_count > 0

\* the tokens of the contents of the File nodes of a tree, counted anew
ContentTokenTotal(node) ==
    LET files == { n \in NodesOf(node) : n.kind = "File" }
        RECURSIVE Total(_)
        Total(ns) ==
            IF ns = {} THEN 0
            ELSE LET n == CHOOSE n \in ns : TRUE
                 IN  WordCount(n.content, FALSE) + Total(ns \ {n})
    IN  Total(files)

\* C30: the token_count of every File node built is the tokenizer's count of
\* the content stored in the node; a file whose fetch failed stores the
\* placeholder and has the placeholder's count, which is not 0, and every
\* Directory above a file counts the tokens of the content stored in it.
C30_FileCountIsCountOfStoredContent ==
    /\ \A n \in ReturnedNodes :
         /\ n.kind = "File" => n.token_count = WordCount(n.content, FALSE)
         /\ n.kind = "Directory" => n.token_count = ContentTokenTotal(n)
    /\ \A i \in DOMAIN requests :
         (requests[i].kind = "file" /\ ~requests[i].ok) =>
            \A n \in ReturnedNodes :
                n.path = requests[i].path =>
                    /\ n.content = "Failed to fetch content"
                    /\ n.token_count = 4

\* a returned tree whose subdirectory holds a file that could not be fetched:
\* its four tokens are all the root counts
C30_Witness ==
    /\ result.tag = "Ok"
    /\ result.node.token_count = 4
    /\ \E i \in DOMAIN requests :
         /\ requests[i].kind = "file" /\ ~requests[i].ok
         /\ StartsWith(requests[i].path, "sub/")

(***************************************************************************)
(* Properties of open_test_pr.                                             *)
(***************************************************************************)
WorkflowOrder == <<"base_ref", "create_branch", "add_file", "create_pull_request">>

\* the call was answered with a success status
CallSucceeded(c) == c.response.transport = "ok" /\ is_success(c.response.status)
CallFailed(c) == c.response # PrPending /\ ~CallSucceeded(c)

\* C23: open_test_pr issues its calls one after the other in the order base ref,
\* create branch, put file, open pull request; a call is issued only after the
\* one before it has succeeded, so the pull request is opened only after the
\* branch creation and the file commit succeeded; after a failed call no other
\* call is issued, none undoes an earlier one, and an error is returned.
C23_CallsInOrderAfterSuccess ==
    /\ Len(prCalls) <= Len(WorkflowOrder)
    /\ \A i \in DOMAIN prCalls :
         /\ prCalls[i].name = WorkflowOrder[i]
         /\ prCalls[i].method # "DELETE"
         /\ i > 1 => CallSucceeded(prCalls[i - 1])
         /\ i < Len(prCalls) => prCalls[i].response # PrPending
         /\ CallFailed(prCalls[i]) => i = Len(prCalls) /\ prResult.tag = "Err"
    /\ prResult = OkUnit =>
         Len(prCalls) = 4 /\ \A i \in DOMAIN prCalls : CallSucceeded(prCalls[i])

\* the file commit has failed after the branch was created: the workflow has
\* returned an error and stopped at three calls
C23_Witness ==
    /\ Len(prCalls) = 3
    /\ CallSucceeded(prCalls[2])
    /\ CallFailed(prCalls[3])
    /\ prResult.tag = "Err"

(***************************************************************************)
(* Properties of main.                                                     *)
(***************************************************************************)
WorkflowStarted == prpc # "idle"
After(i) == IF i < Len(mainLog) THEN mainLog[i + 1] ELSE "nothing yet"

\* C25: open_test_pr starts only after a validate_token that returned Ok.  In
\* quiet mode main never prompts, and a failed check_and_setup or an invalid
\* token ends the process with status 1 before the workflow.  In non-quiet mode
\* an invalid token is followed by a prompt, then by check_and_setup and
\* another validate_token; only a valid token leaves the loop.
C25_WorkflowOnlyAfterValidToken ==
    /\ (WorkflowStarted \/ mpc = "workflow") =>
          /\ validated = OkUnit
          /\ Last(mainLog) = "valid"
          /\ exit_status = None
    /\ quiet =>
          /\ Prompts = 0
          /\ (\E i \in DOMAIN mainLog : mainLog[i] \in {"check_err", "invalid"}) =>
                (exit_status = Some(1) /\ mpc = "exited" /\ ~WorkflowStarted)
    /\ ~quiet =>
          \A i \in DOMAIN mainLog :
              /\ mainLog[i] = "invalid" =>
                    /\ After(i) \in {"prompt", "nothing yet"}
                    /\ After(i + 1) \in {"check_ok", "check_err", "check_panic",
                                          "setup_panic", "nothing yet"}
              /\ mainLog[i] = "check_ok" => After(i) \in {"valid", "invalid", "nothing yet"}
              /\ mainLog[i] = "valid" => i = Len(mainLog)

\* non-quiet mode: an invalid token, a prompt, and a second validation that
\* succeeded and started the workflow
C25_Witness ==
    /\ ~quiet
    /\ WorkflowStarted
    /\ Len(whoami) = 2
    /\ \E i \in DOMAIN mainLog : mainLog[i] = "invalid" /\ After(i) = "prompt"

\* quiet mode: an invalid token has ended the process
QuietExitReached ==
    /\ quiet /\ exit_status = Some(1) /\ Len(whoami) = 1 /\ ~WorkflowStarted

(***************************************************************************)
(* Properties of dredge_repo.                                              *)
(***************************************************************************)
\* C26: dredge_repo returns what read_repo returned, the tree or the error, as
\* it is, and issues no call of the write-side workflow: no base ref lookup, no
\* branch creation, no file commit, no pull request.
C26_DredgeReturnsTreeUntouched ==
    /\ dredged # Idle => dredged = result
    /\ prCalls = <<>>
    /\ prpc = "idle" /\ prResult = Idle

\* dredge_repo has returned a tree that holds a subdirectory
C26_Witness ==
    /\ dredged.tag = "Ok"
    /\ \E i \in DOMAIN dredged.node.children :
         dredged.node.children[i].kind = "Directory"

\* dredge_repo has returned the error of a failed listing
DredgeReturnsError == dredged.tag = "Err" /\ dredged.error # VarError

(***************************************************************************)
(* Properties of a single remote request.                                  *)
(***************************************************************************)
\* the response came and its status is no success
NonSuccess(resp) == resp.transport = "ok" /\ ~(resp.status \in 200..299)

\* the error value has the given part, with the given value
Carries(error, part, value) ==
    /\ "msg" \in DOMAIN error
    /\ part \in DOMAIN error.msg
    /\ error.msg[part] = value

\* C17: the error made of a non-success response to a listing or file-content
\* request carries the HTTP status and the body of the response.
C17_ErrorCarriesStatusAndBody ==
    (callResult # Running /\ NonSuccess(call.response)) =>
        /\ Carries(callResult.error, "status", call.response.status)
        /\ Carries(callResult.error, "body", call.response.body)

\* what the code does: the listing error carries the status, the file error
\* neither status nor body
ErrorCarriesStatusOfListingOnly ==
    (callResult # Running /\ NonSuccess(call.response)) =>
        /\ ~Carries(callResult.error, "body", call.response.body)
        /\ Carries(callResult.error, "status", call.response.status) <=> call.kind = "list"

(***************************************************************************)
(* Properties of the credential check and of validate_token.               *)
(***************************************************************************)
\* the env file check_and_setup looks at, as claimed: .env.test.<suffix> or .env.test in test
\* mode, .env otherwise
SelectedEnvFile ==
    IF ENV = Some("test")
    THEN (IF checkSuffix.some THEN ".env.test." \o checkSuffix.value ELSE ".env.test")
    ELSE ".env"

\* the text "GITHUB_PAT=" stands somewhere in the file
HasPatEntry(file) ==
    \E k \in 1..(Len(file.text) - 10) : SubSeq(file.text, k, k + 10) = "GITHUB_PAT="

\* the result the claim gives for an env file
ClaimedCheck(file) ==
    IF ~file.exists THEN Err(Message("Missing .env file"))
    ELSE IF ~HasPatEntry(file) THEN Err(Message("Missing GITHUB_PAT in .env file"))
    ELSE OkUnit

\* C19: check_and_setup returns Err("Missing .env file") when the selected env file
\* does not exist, Err("Missing GITHUB_PAT in .env file") when it exists without
\* the text "GITHUB_PAT=", and Ok(()) otherwise; the file is as it was.
C19_CheckReportsEnvFile ==
    checked # Idle => checked = ClaimedCheck(envFiles[SelectedEnvFile])

\* what check_and_setup does: the claimed result for a file that is missing or reads
\* as text, a panic for one that cannot be opened or read
CheckOfReadableFile ==
    checked # Idle =>
        LET file == envFiles[SelectedEnvFile]
        IN  IF file.exists /\ ~file.reads THEN checked.tag = "panic"
            ELSE checked = ClaimedCheck(file)

\* the whoami request was answered with a success status
WhoamiSucceeded ==
    /\ whoami # <<>>
    /\ Last(whoami).response.transport = "ok"
    /\ Last(whoami).response.status \in 200..299

\* C20: validate_token returns Ok exactly when the whoami request was answered
\* with a success status, Err in every other case; without GITHUB_PAT it returns
\* Err and sends no request.
C20_ValidTokenIffSuccess ==
    /\ Len(whoami) <= 1
    /\ validated = Running => (Len(whoami) = 1 /\ Last(whoami).response = Pending)
    /\ validated \notin {Idle, Running} =>
         /\ validated.tag \in {"Ok", "Err"}
         /\ validated.tag = "Ok" <=> WhoamiSucceeded
         /\ ~GITHUB_PAT.some => (validated.tag = "Err" /\ whoami = <<>>)
         /\ GITHUB_PAT.some =>
               (Len(whoami) = 1 /\ Last(whoami).response \in WhoamiResponses)

\* the test of main.rs: token set, test mode, the mock answers 401, Err
C20_Witness ==
    /\ validator = "main"
    /\ ENV = Some("test")
    /\ GITHUB_PAT.some
    /\ whoami # <<>>
    /\ Last(whoami).response.transport = "ok"
    /\ Last(whoami).response.status = 401
    /\ validated.tag = "Err"

(***************************************************************************)
(* Properties of process_repo.                                             *)
(***************************************************************************)
DocQueries == { i \in DOMAIN queries : queries[i].kind = "doc" }
OverviewQueries == { i \in DOMAIN queries : queries[i].kind = "overview" }
SummaryFailed == \E i \in OverviewQueries : ~queries[i].outcome.ok

FilesOf(tree) == { n \in NodesOf(tree) : n.kind = "File" }

\* the last three characters of the path are ".rs"
HasRsExtension(path) ==
    /\ Len(path) >= 3
    /\ Char(path, Len(path) - 2) = "."
    /\ Char(path, Len(path) - 1) = "r"
    /\ Char(path, Len(path)) = "s"

\* C6 as claimed: after a failed summarization of a README that was found, the
\* per-file prompts carry the empty project context.
C6_FailedSummaryEmptiesContext ==
    (raw_context # "" /\ SummaryFailed) =>
        \A i \in DocQueries : queries[i].project_context = ""

\* C6, amended: after a failed summarization of a README that was found, the
\* per-file prompts carry the raw README excerpt, which is kept as the context.
C6_FailedSummaryKeepsRawContext ==
    (raw_context # "" /\ SummaryFailed) =>
        /\ ppc \in {"docs", "done"} => project_context = raw_context
        /\ \A i \in DocQueries : queries[i].project_context = raw_context

\* a per-file query issued after the summarization of a found README failed
C6_Witness ==
    /\ raw_context # ""
    /\ SummaryFailed
    /\ DocQueries # {}

\* C7: no model query is issued and no DredgerDoc is produced for a File node
\* whose path does not end in ".rs".
C7_OnlyRustFilesAreQueried ==
    /\ \A i \in DocQueries : HasRsExtension(queries[i].file_path)
    /\ \A k \in DOMAIN doc_results : HasRsExtension(doc_results[k].file_path)
    /\ \A n \in FilesOf(root_node) :
         ~HasRsExtension(n.path) =>
            /\ \A i \in DocQueries : queries[i].file_path # n.path
            /\ \A k \in DOMAIN doc_results : doc_results[k].file_path # n.path

\* a finished run over a tree holding README.md and vars next to a Rust file
C7_Witness ==
    /\ ppc = "done"
    /\ \E n \in FilesOf(root_node) : n.path = "README.md"
    /\ \E n \in FilesOf(root_node) : n.path = "vars"
    /\ DocQueries # {}

\* C8: a failed query aborts nothing: the run never returns an error, and when it
\* returns, it returns Ok with the collected docs, having queried every Rust file
\* of the tree once.
C8_QueryFailuresAreRecovered ==
    /\ presult.tag \in {"running", "Ok"}
    /\ ppc = "done" =>
         /\ presult = OkDocs(doc_results)
         /\ \A n \in FilesOf(root_node) :
              HasRsExtension(n.path) =>
                 Cardinality({ i \in DocQueries : queries[i].file_path = n.path }) = 1

\* a finished run in which the summarization and the first per-file query failed
\* and a later per-file query gave a doc
C8_Witness ==
    /\ ppc = "done"
    /\ SummaryFailed
    /\ \E i, j \in DocQueries :
         /\ i < j
         /\ ~queries[i].outcome.ok
         /\ queries[j].outcome.ok
    /\ doc_results # <<>>

\* a line whose text, leading white space aside, starts with "//"
StartsWithSlashesAfterSpace(line) ==
    \E k \in 0..(Len(line) - 2) :
        /\ \A j \in 1..k : IsSpace(Char(line, j))
        /\ Char(line, k + 1) = "/"
        /\ Char(line, k + 2) = "/"

\* the lines of a response that the claim keeps
KeptLines(text) == SelectSeq(Lines(text), StartsWithSlashesAfterSpace)

\* lines put together with a newline between each two
JoinedByNewline(lines) ==
    LET upTo[i \in 0..Len(lines)] ==
            IF i = 0 THEN ""
            ELSE IF i = 1 THEN lines[1]
            ELSE upTo[i - 1] \o "\n" \o lines[i]
    IN  upTo[Len(lines)]

\* the comment block the claim describes for a query: the kept lines of its
\* response joined by newline; "" for a query that failed
ClaimedComments(q) ==
    IF q.kind = "doc" /\ q.outcome.ok THEN JoinedByNewline(KeptLines(q.outcome.text))
    ELSE ""

\* C9: the docs collected are, in order, one per answered query whose response
\* holds a line starting with "//" once trimmed; each has the path of a ".rs" File
\* node of the tree and, as comments, exactly those lines joined by newline, which
\* is never the empty string.
C9_DocsAreTheCommentLines ==
    LET claimed == [i \in 1..Len(queries) |->
                      [file_path |-> IF queries[i].kind = "doc" THEN queries[i].file_path
                                     ELSE "",
                       comments |-> ClaimedComments(queries[i])]]
        documented == SelectSeq(claimed, LAMBDA d : d.comments # "")
        rustPaths == { n.path : n \in { f \in FilesOf(root_node) : HasRsExtension(f.path) } }
    IN  /\ doc_results = documented
        /\ \A k \in DOMAIN doc_results :
             /\ doc_results[k].comments # ""
             /\ doc_results[k].file_path \in rustPaths

\* a finished run: one response with an indented comment line among other lines
\* gave a doc of several lines, one response without comment lines gave none
C9_Witness ==
    /\ ppc = "done"
    /\ Len(doc_results) = 1
    /\ Len(Lines(doc_results[1].comments)) >= 2
    /\ \E i \in DocQueries :
         /\ queries[i].outcome.ok
         /\ queries[i].file_path = doc_results[1].file_path
         /\ Len(Lines(queries[i].outcome.text)) > Len(Lines(doc_results[1].comments))
         /\ \E l \in DOMAIN Lines(doc_results[1].comments) :
               IsSpace(Char(Lines(doc_results[1].comments)[l], 1))
    /\ \E i \in DocQueries :
         /\ queries[i].outcome.ok
         /\ queries[i].outcome.text # ""
         /\ queries[i].file_path # doc_results[1].file_path

RECURSIVE FilesLastFirst(_)
\* the File nodes below a sequence of sibling nodes, the last sibling first, the
\* files below a directory before anything of its earlier siblings
FilesLastFirst(nodes) ==
    IF nodes = <<>> THEN <<>>
    ELSE LET n == Last(nodes)
         IN  (IF n.kind = "File" THEN <<n>> ELSE FilesLastFirst(n.children))
             \o FilesLastFirst(SubSeq(nodes, 1, Len(nodes) - 1))

\* the path ends with the characters README or README.md
IsReadmePath(path) ==
    \E k \in 0..Len(path) : SubSeq(path, k + 1, Len(path)) \in {"README", "README.md"}

\* the README files of a tree in the order the search comes upon them
ReadmesFound(tree) == SelectSeq(FilesLastFirst(<<tree>>), LAMBDA n : IsReadmePath(n.path))

\* the first ten lines of a text, all of them when there are fewer, with a
\* newline between each two
FirstTenLines(text) ==
    LET lines == Lines(text)
    IN  JoinedByNewline(SubSeq(lines, 1, IF Len(lines) <= 10 THEN Len(lines) ELSE 10))

\* C12: when the README search is over, the project context it leaves, the raw
\* project context, is the first ten lines of the first README found, joined by
\* newline, and the empty string when the tree holds no README.
C12_RawContextIsReadmeHead ==
    ppc = "summarize" =>
        /\ project_context = raw_context
        /\ raw_context = (IF ReadmesFound(root_node) = <<>> THEN ""
                          ELSE FirstTenLines(ReadmesFound(root_node)[1].content))

\* the search just over, on a tree of two READMEs, the one found first longer
\* than ten lines
C12_Witness ==
    /\ ppc = "summarize"
    /\ Len(ReadmesFound(root_node)) = 2
    /\ Len(Lines(ReadmesFound(root_node)[1].content)) > 10
    /\ Len(Lines(raw_context)) = 10
    /\ Lines(raw_context)[10] = "l9"

\* the search is over and a second run of it over the tree gives the string the
\* first run gave
SearchRepeats ==
    ppc = "summarize" => SearchReadme(<<root_node>>) = raw_context

\* a step of the search issues no query and no request and leaves the tree alone
SearchStepIsLocal ==
    ppc = "search" =>
        /\ root_node' = root_node
        /\ queries' = queries
        /\ requests' = requests

\* C13: the README search run again over the tree gives the same string, and
\* the tree never changes, so that a run at any later time gives it too; the
\* search sends nothing to a remote.
C13_ContextExtractionIsIdempotent ==
    /\ []SearchRepeats
    /\ [][SearchStepIsLocal]_vars
    /\ [][root_node' = root_node]_vars

\* a finished run, queries issued since the search, over a tree with a README
\* in the root and another in the subdirectory
C13_Witness ==
    /\ ppc = "done"
    /\ raw_context # ""
    /\ queries # <<>>
    /\ \E n \in FilesOf(root_node) : n.path = "README.md"
    /\ \E n \in FilesOf(root_node) : n.path = "sub/README"
    /\ SearchReadme(<<root_node>>) = raw_context

\* the phases of process_repo, numbered in the order claimed
PhaseRank(pc) ==
    CASE pc = "search" -> 1
      [] pc = "summarize" -> 2
      [] pc = "docs" -> 3
      [] pc = "done" -> 4
      [] OTHER -> 0

\* what the log of queries shows in each phase
PhasesInLog ==
    /\ ppc = "search" => queries = <<>>
    /\ ppc = "summarize" => queries = <<>>
    /\ Cardinality(OverviewQueries) <= 1
    /\ \A i \in OverviewQueries :
         /\ raw_context # ""
         /\ queries[i].prompt = raw_context
         /\ queries[i].outcome.ok \in BOOLEAN
         /\ \A j \in DocQueries : i < j
    /\ (ppc \in {"docs", "done"} /\ raw_context = "") => OverviewQueries = {}
    /\ (ppc \in {"docs", "done"} /\ raw_context # "") => Cardinality(OverviewQueries) = 1

\* a step stays in its phase or moves to the next one
PhaseStep == PhaseRank(ppc') \in {PhaseRank(ppc), PhaseRank(ppc) + 1}

\* C14: the run goes through context extraction, summarization and per-file
\* generation in this order; at most one summarization query is issued, only for
\* a non-empty raw context, and it has ended before any per-file query.
C14_PhasesInOrder == []PhasesInLog /\ [][PhaseStep]_vars

\* a finished run: the summarization query first, then two per-file queries
C14_Witness ==
    /\ ppc = "done"
    /\ Len(queries) = 3
    /\ queries[1].kind = "overview"
    /\ queries[2].kind = "doc"
    /\ queries[3].kind = "doc"

RECURSIVE FilesInTreeOrder(_)
\* the File nodes below a sequence of sibling nodes in tree order: siblings as
\* stored, the files below a directory before anything of its later siblings
FilesInTreeOrder(nodes) ==
    IF nodes = <<>> THEN <<>>
    ELSE (IF Head(nodes).kind = "File" THEN <<Head(nodes)>>
          ELSE FilesInTreeOrder(Head(nodes).children))
         \o FilesInTreeOrder(Tail(nodes))

\* the paths of a sequence of File nodes that end in ".rs", in order
RustPaths(files) ==
    LET rust == SelectSeq(files, LAMBDA n : HasRsExtension(n.path))
    IN  [k \in DOMAIN rust |-> rust[k].path]

\* the paths the per-file queries were issued for, in order of issue
QueriedPaths ==
    LET docs == SelectSeq(queries, LAMBDA q : q.kind = "doc")
    IN  [k \in DOMAIN docs |-> docs[k].file_path]

\* positions of a path in a sequence of paths
PositionsOf(path, paths) == { k \in DOMAIN paths : paths[k] = path }

\* C15: a finished run has queried each ".rs" File node once, in tree order
\* (children as stored, depth first), and the docs returned are in tree order.
C15_FilesVisitedInTreeOrder ==
    ppc = "done" =>
        /\ QueriedPaths = RustPaths(FilesInTreeOrder(<<root_node>>))
        /\ \A a, b \in DOMAIN doc_results :
             a < b =>
                \A i \in PositionsOf(doc_results[a].file_path, QueriedPaths) :
                    \A j \in PositionsOf(doc_results[b].file_path, QueriedPaths) :
                        i < j

\* what the per-file phase does: each ".rs" File node queried once, the last
\* child of a directory first
FilesVisitedLastChildFirst ==
    ppc = "done" => QueriedPaths = RustPaths(FilesLastFirst(<<root_node>>))

\* the summaries obtained: the text of an overview query that succeeded, when
\* it is not empty
SummariesObtained ==
    { queries[j].outcome.text :
        j \in { k \in OverviewQueries :
                  queries[k].outcome.ok /\ queries[k].outcome.text # "" } }

\* C22: the project context of every per-file prompt is the summary when a
\* summary that is not empty was obtained, and the raw README excerpt when the
\* summarization failed or gave the empty string; it is empty only when that
\* excerpt is empty (no README found, or an empty head).
C22_ContextIsSummaryOrExcerpt ==
    \A i \in DocQueries :
        /\ SummariesObtained # {} => queries[i].project_context \in SummariesObtained
        /\ SummariesObtained = {} => queries[i].project_context = raw_context
        /\ queries[i].project_context = "" => raw_context = ""
        /\ Cardinality(OverviewQueries) <= 1

\* a per-file query after the summarization of a found README has succeeded
\* with the empty string
C22_Witness ==
    /\ DocQueries # {}
    /\ raw_context # ""
    /\ \E k \in OverviewQueries : queries[k].outcome.ok
    /\ SummariesObtained = {}

\* the File nodes of the tree in the order of a search that takes the last
\* child of a Directory first and goes through a Directory before it looks at
\* the siblings stored before it
SearchOrder == FilesLastFirst(<<root_node>>)

\* the files the search has not looked at are those from place k + 1 on
Unexamined(k) == FilesLastFirst(pstack) = SubSeq(SearchOrder, k + 1, Len(SearchOrder))

\* C28: the README used for the project context is the first match of a search
\* in SearchOrder, be it nested below a later sibling of a README of the root;
\* the search stops there and looks at none of the nodes that remain.
C28_FirstReadmeLastChildFirst ==
    /\ ppc = "search" =>
          \E k \in 0..Len(SearchOrder) :
              /\ Unexamined(k)
              /\ \A i \in 1..k : ~IsReadmePath(SearchOrder[i].path)
    /\ (ppc = "summarize" /\ raw_context # "") =>
          \E k \in 1..Len(SearchOrder) :
              /\ Unexamined(k)
              /\ IsReadmePath(SearchOrder[k].path)
              /\ \A i \in 1..(k - 1) : ~IsReadmePath(SearchOrder[i].path)
              /\ raw_context = FirstTenLines(SearchOrder[k].content)

\* the search has stopped at the README of a subdirectory stored after a README
\* of the root, which it has not looked at
C28_Witness ==
    /\ ppc = "summarize"
    /\ raw_context = "# sub/README.md\nA tool.\nUsage"
    /\ \E i \in DOMAIN pstack : pstack[i].kind = "File" /\ pstack[i].path = "README"

(***************************************************************************)
(* Properties of the model query.                                          *)
(***************************************************************************)
\* the fragment a line of the body carries: what lies between the "response"
\* key and the closing brace, "" for any other line
FragmentOf(line) ==
    IF \E f \in {"//! ", "hi"} : line = ResponseLine(f)
    THEN CHOOSE f \in {"//! ", "hi"} : line = ResponseLine(f)
    ELSE ""

\* the fragments of the lines of a body, in order, put together
FragmentsOfBody(body) ==
    LET lines == Lines(body)
        upTo[i \in 0..Len(lines)] ==
            IF i = 0 THEN "" ELSE upTo[i - 1] \o FragmentOf(lines[i])
    IN  upTo[Len(lines)]

\* C10: a query that returns gives the `response` fragments of the lines of the
\* stream, in arrival order, put together; other lines add nothing and are no
\* error.
C10_QueryConcatenatesFragments ==
    (qpc = "done" /\ qresult.ok) => qresult.text = FragmentsOfBody(qstream)

\* what the query returns when the whole stream arrives in one chunk
OneChunkResult(body) == PushFragments("", Lines(body))

\* C27: the text a query returns is the same for every split of the response
\* stream into chunks, a split inside a line included: it is the text returned
\* when the stream arrives in one chunk.
C27_ChunkSplitIndependent ==
    (qpc = "done" /\ qresult.ok) => qresult.text = OneChunkResult(qstream)

\* the same, for the runs in which every chunk ended with a line
QueryOnWholeLines ==
    (qpc = "done" /\ qresult.ok /\ ~qsplit) => qresult.text = FragmentsOfBody(qstream)

====
